---- MODULE Spec2Model ----
(***************************************************************************)
(* Defensiq network security: the blocklist rule store                     *)
(* (rules/blocklist_manager.py) and the packet filter engine               *)
(* (network/filter_engine.py).                                             *)
(*                                                                         *)
(* Text is modelled as a sequence of character codes (ASCII), so that      *)
(* lower(), strip(), split('.'), join and the byte-level parsers are       *)
(* computed the way the Python code computes them.                         *)
(***************************************************************************)
EXTENDS Integers, Sequences, FiniteSets, TLC

\* ------------------------------------------------------------------ bounds

\* Longest query string drawn for is_domain_blocked.
MaxLen == 5
\* Most entries a rule collection (domains, IPs, patterns) grows to.
MaxRules == 2
\* Most writes of a file the storage lets fail.
MaxIoFailures == 1
\* Most worker threads start() creates.
MaxThreads == 2
\* Most packets the interception facility delivers.
MaxPackets == 2
\* The latest time the clock reaches.
MaxClock == 2
\* Most labels of a DNS name built for the parser, and most bytes of a label.
MaxLabels == 2
MaxLabelLen == 2

\* ------------------------------------------------------------- characters

\* '.' : the separator of domain.split('.') and ip.split('.').
chDot == 46
\* '/' : rejected by add_domain.
chSlash == 47

\* Named strings of the model (character codes).
s_b == <<98>>                               \* "b"
s_a_b == <<97, 46, 98>>                     \* "a.b"
s_a_a_b == <<97, 46, 97, 46, 98>>           \* "a.a.b"
s_ab == <<97, 98>>                          \* "ab"
s_AB_sp == <<32, 65, 46, 66, 32>>           \* " A.B "
s_slash == <<97, 47, 98>>                   \* "a/b"
s_empty == <<>>                             \* ""
s_B == <<66>>                               \* "B"
s_paren == <<40>>                           \* "("
ip_1 == <<49, 46, 49, 46, 49, 46, 49>>      \* "1.1.1.1"
ip_2 == <<50, 46, 50, 46, 50, 46, 50>>      \* "2.2.2.2"
ip_999 == <<57, 57, 57, 46, 49, 46, 49, 46, 49>>  \* "999.1.1.1"
ip_sp == <<32, 49, 46, 49, 46, 49, 46, 49>> \* " 1.1.1.1"

\* The 12 header bytes of a DNS message followed by the question bytes.
DnsPayload(question) == <<0, 0, 0, 0, 0, 0, 0, 0, 0, 0, 0, 0>> \o question

\* "GET /\r\nHost: ab:80\r\n\r\n"
http_host_ab ==
    <<71, 69, 84, 32, 47, 13, 10, 72, 111, 115, 116, 58, 32, 97, 98, 58, 56, 48,
      13, 10, 13, 10>>

\* --------------------------------------------------------- str operations

\* str.lower() on one character (ASCII letters).
LowerChar(c) == IF c >= 65 /\ c <= 90 THEN c + 32 ELSE c

\* str.lower()
Lower(s) == [i \in 1..Len(s) |-> LowerChar(s[i])]

\* The characters str.strip() removes.
IsSpace(c) == c \in {9, 10, 11, 12, 13, 32}

\* str.strip(): leading and trailing whitespace removed.
Strip(s) ==
    LET idx == {i \in 1..Len(s) : ~IsSpace(s[i])}
    IN  IF idx = {} THEN <<>>
        ELSE LET lo == CHOOSE i \in idx : \A j \in idx : i <= j
                 hi == CHOOSE i \in idx : \A j \in idx : i >= j
             IN  SubSeq(s, lo, hi)

\* str.split(sep) for a one-character separator: the list of parts.
RECURSIVE Split(_, _)
Split(s, sep) ==
    LET hits == {i \in 1..Len(s) : s[i] = sep}
    IN  IF hits = {} THEN <<s>>
        ELSE LET k == CHOOSE i \in hits : \A j \in hits : i <= j
             IN  <<SubSeq(s, 1, k - 1)>> \o Split(SubSeq(s, k + 1, Len(s)), sep)

\* sep.join(parts)
RECURSIVE Join(_, _)
Join(parts, sep) ==
    IF Len(parts) = 0 THEN <<>>
    ELSE IF Len(parts) = 1 THEN parts[1]
    ELSE parts[1] \o <<sep>> \o Join(Tail(parts), sep)

\* x in s for a character x.
HasChar(s, c) == \E i \in 1..Len(s) : s[i] = c

\* ------------------------------------------------------------------- re

\* re.compile(pattern, re.IGNORECASE) raises re.error: in the modelled subset
\* of patterns (letters, '.' and '(') an opening parenthesis is never closed.
RegexInvalid(p) == HasChar(p, 40)

\* One pattern character against one subject character under re.IGNORECASE:
\* '.' matches any character but a newline, a letter matches itself in
\* either case.
CharMatch(pc, c) ==
    IF pc = chDot THEN c # 10 ELSE LowerChar(pc) = LowerChar(c)

\* pattern.search(s): the pattern matches at some offset of s.
RegexSearch(p, s) ==
    \E k \in 0..(Len(s) - Len(p)) :
        \A i \in 1..Len(p) : CharMatch(p[i], s[k + i])

\* ------------------------------------------- dict (insertion-ordered map)

\* A dict is a sequence of entries with distinct values, in insertion order.
DictHas(d, k) == \E i \in 1..Len(d) : d[i].value = k

DictGet(d, k) == d[CHOOSE i \in 1..Len(d) : d[i].value = k].category

\* d[k] = c
DictSet(d, k, c) ==
    IF DictHas(d, k)
    THEN [i \in 1..Len(d) |->
            IF d[i].value = k THEN [value |-> k, category |-> c] ELSE d[i]]
    ELSE Append(d, [value |-> k, category |-> c])

\* del d[k]
DictDel(d, k) == SelectSeq(d, LAMBDA e : e.value # k)

\* The mapping a dict denotes (dict equality ignores insertion order).
DictItems(d) == {d[i] : i \in 1..Len(d)}

\* ------------------------------------------------------------- int(text)

IsDigit(c) == c >= 48 /\ c <= 57

\* The digits of int(text): whitespace stripped, one optional sign dropped.
IntDigits(s) ==
    LET t == Strip(s)
    IN  IF Len(t) > 0 /\ t[1] \in {43, 45} THEN Tail(t) ELSE t

\* int(text) raises ValueError.
IntRaises(s) ==
    LET d == IntDigits(s)
    IN  Len(d) = 0 \/ \E i \in 1..Len(d) : ~IsDigit(d[i])

RECURSIVE DigitsValue(_)
DigitsValue(d) ==
    IF Len(d) = 0 THEN 0
    ELSE 10 * DigitsValue(SubSeq(d, 1, Len(d) - 1)) + (d[Len(d)] - 48)

\* int(text) when it does not raise.
IntValue(s) ==
    LET t == Strip(s)
        v == DigitsValue(IntDigits(s))
    IN  IF Len(t) > 0 /\ t[1] = 45 THEN 0 - v ELSE v

\* BlocklistManager._is_valid_ip
IsValidIp(ip) ==
    LET parts == Split(ip, chDot)
    IN  /\ Len(parts) = 4
        /\ \A i \in 1..4 :
              /\ ~IntRaises(parts[i])
              /\ 0 <= IntValue(parts[i])
              /\ IntValue(parts[i]) <= 255

\* ------------------------------------------------------- the rule file

\* BlocklistCategory.CUSTOM.value, the default category.
CategoryCustom == "custom"

\* The three collections of a rule document.
EmptyData == [domains |-> <<>>, ips |-> <<>>, patterns |-> <<>>]

\* A file that does not exist, a file left unreadable by a write that failed
\* midway, and a file holding a JSON rule document.
FileMissing == [kind |-> "missing", data |-> EmptyData]
FileCorrupt == [kind |-> "corrupt", data |-> EmptyData]
FileJson(data) == [kind |-> "json", data |-> data]

\* Outcomes of writing a file: written; open() raised (file untouched);
\* json.dump / write raised after open() truncated the file.
IoOutcomes == {"ok", "open_error", "write_error"}

\* open(path, 'w') followed by a write of `content`
WriteFile(old, content, io) ==
    IF io = "ok" THEN content
    ELSE IF io = "open_error" THEN old
    ELSE FileCorrupt

\* ------------------------------------------------------ BlocklistManager

\* The state of a BlocklistManager after __init__ found no rule file and
\* wrote the default one (or failed to).
NewStore(io) ==
    [blocked_domains |-> <<>>, blocked_ips |-> <<>>, blocked_patterns |-> <<>>,
     blocklist_file |-> WriteFile(FileMissing, FileJson(EmptyData), io)]

\* SaveData without the 'patterns' collection, as export_to_file builds its
\* document (mutant).
SaveDataNoPatterns(st) ==
    [domains |-> [i \in 1..Len(st.blocked_domains) |->
                    [value |-> st.blocked_domains[i].value,
                     category |-> st.blocked_domains[i].category]],
     ips |-> [i \in 1..Len(st.blocked_ips) |->
                    [value |-> st.blocked_ips[i].value,
                     category |-> st.blocked_ips[i].category]]]

\* The document save_blocklist() builds from memory when given no data.
SaveData(st) ==
    [domains |-> [i \in 1..Len(st.blocked_domains) |->
                    [value |-> st.blocked_domains[i].value,
                     category |-> st.blocked_domains[i].category]],
     ips |-> [i \in 1..Len(st.blocked_ips) |->
                    [value |-> st.blocked_ips[i].value,
                     category |-> st.blocked_ips[i].category]],
     patterns |-> [i \in 1..Len(st.blocked_patterns) |->
                    [value |-> st.blocked_patterns[i].pattern,
                     category |-> st.blocked_patterns[i].category]]]

\* save_blocklist(data): the store afterwards and the value returned.
SaveBlocklistData(st, data, io) ==
    [st |-> [st EXCEPT !.blocklist_file =
                WriteFile(st.blocklist_file, FileJson(data), io)],
     ok |-> (io = "ok")]

\* save_blocklist()
SaveBlocklist(st, io) == SaveBlocklistData(st, SaveData(st), io)

\* The loop of load_blocklist over data['domains']: value lower-cased.
RECURSIVE LoadDomains(_, _)
LoadDomains(entries, acc) ==
    IF Len(entries) = 0 THEN acc
    ELSE LoadDomains(Tail(entries),
                     DictSet(acc, Lower(entries[1].value), entries[1].category))

\* The loop of load_blocklist over data['ips'].
RECURSIVE LoadIps(_, _)
LoadIps(entries, acc) ==
    IF Len(entries) = 0 THEN acc
    ELSE LoadIps(Tail(entries),
                 DictSet(acc, entries[1].value, entries[1].category))

\* The loop of load_blocklist over data['patterns']: a pattern that does not
\* compile is skipped.
RECURSIVE LoadPatterns(_, _)
LoadPatterns(entries, acc) ==
    IF Len(entries) = 0 THEN acc
    ELSE LoadPatterns(Tail(entries),
            IF RegexInvalid(entries[1].value) THEN acc
            ELSE Append(acc, [pattern |-> entries[1].value,
                              category |-> entries[1].category]))

\* data.get(key, [])
DataGet(data, key) == IF key \in DOMAIN data THEN data[key] ELSE <<>>

\* load_blocklist(): the store afterwards and the value returned.
LoadBlocklist(st, io) ==
    IF st.blocklist_file.kind = "missing"
    THEN [st |-> SaveBlocklistData(st, EmptyData, io).st, ok |-> TRUE]
    ELSE IF st.blocklist_file.kind = "corrupt"
    THEN [st |-> st, ok |-> FALSE]
    ELSE LET data == st.blocklist_file.data
         IN  [st |-> [st EXCEPT
                        !.blocked_domains =
                            LoadDomains(DataGet(data, "domains"), <<>>),
                        !.blocked_ips = LoadIps(DataGet(data, "ips"), <<>>),
                        !.blocked_patterns =
                            LoadPatterns(DataGet(data, "patterns"), <<>>)],
              ok |-> TRUE]

\* A BlocklistManager that finds `file` as its rule file and loads it.
Loaded(file) ==
    LoadBlocklist([blocked_domains |-> <<>>, blocked_ips |-> <<>>,
                   blocked_patterns |-> <<>>, blocklist_file |-> file], "ok")

\* add_domain that puts the old mapping back when the save fails (mutant).
AddDomainOpRollback(st, domain, category, io) ==
    LET d == Strip(Lower(domain))
    IN  IF Len(d) = 0 \/ HasChar(d, chSlash) \/ io # "ok"
        THEN [st |-> [st EXCEPT !.blocklist_file =
                        WriteFile(st.blocklist_file, st.blocklist_file, io)],
              ok |-> FALSE]
        ELSE SaveBlocklist(
                [st EXCEPT !.blocked_domains = DictSet(@, d, category)], io)

\* add_domain(domain, category)
AddDomainOp(st, domain, category, io) ==
    LET d == Strip(Lower(domain))
    IN  IF Len(d) = 0 \/ HasChar(d, chSlash)
        THEN [st |-> st, ok |-> FALSE]
        ELSE SaveBlocklist(
                [st EXCEPT !.blocked_domains = DictSet(@, d, category)], io)

\* add_ip(ip, category)
AddIpOp(st, ip, category, io) ==
    LET a == Strip(ip)
    IN  IF ~IsValidIp(a)
        THEN [st |-> st, ok |-> FALSE]
        ELSE SaveBlocklist(
                [st EXCEPT !.blocked_ips = DictSet(@, a, category)], io)

\* add_pattern(pattern, category)
AddPatternOp(st, pattern, category, io) ==
    IF RegexInvalid(pattern)
    THEN [st |-> st, ok |-> FALSE]
    ELSE SaveBlocklist(
            [st EXCEPT !.blocked_patterns =
                Append(@, [pattern |-> pattern, category |-> category])], io)

\* remove_domain that saves without deleting the key (mutant).
RemoveDomainOpNoDelete(st, domain, io) ==
    LET d == Strip(Lower(domain))
    IN  IF DictHas(st.blocked_domains, d)
        THEN SaveBlocklist(st, io)
        ELSE [st |-> st, ok |-> FALSE]

\* remove_domain(domain)
RemoveDomainOp(st, domain, io) ==
    LET d == Strip(Lower(domain))
    IN  IF DictHas(st.blocked_domains, d)
        THEN SaveBlocklist([st EXCEPT !.blocked_domains = DictDel(@, d)], io)
        ELSE [st |-> st, ok |-> FALSE]

\* remove_ip(ip)
RemoveIpOp(st, ip, io) ==
    LET a == Strip(ip)
    IN  IF DictHas(st.blocked_ips, a)
        THEN SaveBlocklist([st EXCEPT !.blocked_ips = DictDel(@, a)], io)
        ELSE [st |-> st, ok |-> FALSE]

\* clear_category(category)
ClearCategoryOp(st, category, io) ==
    SaveBlocklist(
        [st EXCEPT
            !.blocked_domains = SelectSeq(@, LAMBDA e : e.category # category),
            !.blocked_ips = SelectSeq(@, LAMBDA e : e.category # category),
            !.blocked_patterns = SelectSeq(@, LAMBDA e : e.category # category)],
        io)

\* A reason string: its fixed text and the value interpolated into it
\* ("Exact match" interpolates nothing).
Reason(text, cite) == [text |-> text, cite |-> cite]

\* (False, None, None)
NotBlocked ==
    [blocked |-> FALSE, category |-> "None", reason |-> Reason("None", <<>>)]

\* ParentDomains as a plain endswith() check would have it: every character
\* suffix of the domain, whether or not it starts at a label (mutant).
ParentDomainsAnySuffix(domain) ==
    [i \in 1..Len(domain) |-> SubSeq(domain, i, Len(domain))]

\* The parent domains tried by is_domain_blocked: '.'.join(parts[i:]) for
\* i in range(len(parts)), longest first.
ParentDomains(domain) ==
    LET parts == Split(domain, chDot)
    IN  [i \in 1..Len(parts) |-> Join(SubSeq(parts, i, Len(parts)), chDot)]

\* FirstPattern with the list walked from its end (mutant).
FirstPatternLast(patterns, domain) ==
    LET hits == {i \in 1..Len(patterns) : RegexSearch(patterns[i].pattern, domain)}
    IN  IF hits = {} THEN 0 ELSE CHOOSE i \in hits : \A j \in hits : i >= j

\* The index of the first pattern of the list that matches, 0 if none does.
FirstPattern(patterns, domain) ==
    LET hits == {i \in 1..Len(patterns) : RegexSearch(patterns[i].pattern, domain)}
    IN  IF hits = {} THEN 0 ELSE CHOOSE i \in hits : \A j \in hits : i <= j

\* is_domain_blocked(domain): (is_blocked, category, reason)
IsDomainBlocked(st, domain) ==
    LET d == Strip(Lower(domain))
        parents == ParentDomains(d)
        hits == {i \in 1..Len(parents) : DictHas(st.blocked_domains, parents[i])}
        p == FirstPattern(st.blocked_patterns, d)
    IN  IF DictHas(st.blocked_domains, d)
        THEN [blocked |-> TRUE, category |-> DictGet(st.blocked_domains, d),
              reason |-> Reason("Exact match", <<>>)]
        ELSE IF hits # {}
        THEN LET i == CHOOSE i \in hits : \A j \in hits : i <= j
             IN  [blocked |-> TRUE,
                  category |-> DictGet(st.blocked_domains, parents[i]),
                  reason |-> Reason("Parent domain match: ", parents[i])]
        ELSE IF p # 0
        THEN [blocked |-> TRUE, category |-> st.blocked_patterns[p].category,
              reason |-> Reason("Pattern match: ", st.blocked_patterns[p].pattern)]
        ELSE NotBlocked

\* is_ip_blocked(ip): (is_blocked, category, reason)
IsIpBlocked(st, ip) ==
    LET a == Strip(ip)
    IN  IF DictHas(st.blocked_ips, a)
        THEN [blocked |-> TRUE, category |-> DictGet(st.blocked_ips, a),
              reason |-> Reason("Exact match", <<>>)]
        ELSE NotBlocked

\* ------------------------------------------------- export / import files

\* a < b in Python's ordering of str (code points, a proper prefix first).
StrLess(a, b) ==
    \E k \in 1..(Len(b)) :
        /\ \A i \in 1..(k - 1) : i <= Len(a) /\ a[i] = b[i]
        /\ \/ Len(a) = k - 1
           \/ Len(a) >= k /\ a[k] < b[k]

\* sorted(keys)
RECURSIVE Sorted(_)
Sorted(keys) ==
    IF keys = {} THEN <<>>
    ELSE LET m == CHOOSE x \in keys : \A y \in keys \ {x} : StrLess(x, y)
         IN  <<m>> \o Sorted(keys \ {m})

\* A line of the text export that starts with '#' (its wording is left out).
CommentLine == <<35>>

\* The lines export_to_file writes for format 'txt'.
ExportLines(st) ==
    <<CommentLine, CommentLine, <<>>, CommentLine>>
    \o Sorted({st.blocked_domains[i].value : i \in 1..Len(st.blocked_domains)})
    \o <<(<<>>), CommentLine>>
    \o Sorted({st.blocked_ips[i].value : i \in 1..Len(st.blocked_ips)})

\* The document export_to_file writes for format 'json'.
ExportData(st) ==
    [domains |-> [i \in 1..Len(st.blocked_domains) |->
                    [value |-> st.blocked_domains[i].value,
                     category |-> st.blocked_domains[i].category]],
     ips |-> [i \in 1..Len(st.blocked_ips) |->
                    [value |-> st.blocked_ips[i].value,
                     category |-> st.blocked_ips[i].category]]]

\* A text file of the given lines; a text write that fails after open()
\* leaves the truncated, empty file.
FileTxt(lines) == [kind |-> "txt", data |-> lines]

\* export_to_file(file_path, format): the file afterwards and the value
\* returned. The path's suffix is the format's.
ExportToFileOp(st, old, format, io) ==
    IF format = "json"
    THEN [file |-> WriteFile(old, FileJson(ExportData(st)), io),
          ok |-> (io = "ok")]
    ELSE IF format = "txt"
    THEN [file |-> IF io = "write_error" THEN FileTxt(<<>>)
                   ELSE WriteFile(old, FileTxt(ExportLines(st)), io),
          ok |-> (io = "ok")]
    ELSE [file |-> old, ok |-> TRUE]

\* The outcome of the n-th save of a bulk import: writes succeed until the
\* storage starts failing at save `from` with outcome `how`.
IoAt(from, how, n) == IF n >= from THEN how ELSE "ok"

\* entry.get('category', category)
EntryCategory(e, category) ==
    IF "category" \in DOMAIN e THEN e.category ELSE category

\* The loop of import_from_file over data['domains']; acc is the store, the
\* count so far and the number of add_* calls made.
RECURSIVE ImportJsonDomains(_, _, _, _, _)
ImportJsonDomains(acc, entries, category, from, how) ==
    IF Len(entries) = 0 THEN acc
    ELSE LET r == AddDomainOp(acc.st, entries[1].value,
                        EntryCategory(entries[1], category),
                        IoAt(from, how, acc.n + 1))
         IN  ImportJsonDomains(
                [st |-> r.st, n |-> acc.n + 1,
                 count |-> IF r.ok THEN acc.count + 1 ELSE acc.count],
                Tail(entries), category, from, how)

\* The loop of import_from_file over data['ips'].
RECURSIVE ImportJsonIps(_, _, _, _, _)
ImportJsonIps(acc, entries, category, from, how) ==
    IF Len(entries) = 0 THEN acc
    ELSE LET r == AddIpOp(acc.st, entries[1].value,
                        EntryCategory(entries[1], category),
                        IoAt(from, how, acc.n + 1))
         IN  ImportJsonIps(
                [st |-> r.st, n |-> acc.n + 1,
                 count |-> IF r.ok THEN acc.count + 1 ELSE acc.count],
                Tail(entries), category, from, how)

\* The loop of import_from_file over the lines of a text file.
RECURSIVE ImportLines(_, _, _, _, _)
ImportLines(acc, lines, category, from, how) ==
    IF Len(lines) = 0 THEN acc
    ELSE LET line == Strip(lines[1])
         IN  IF Len(line) = 0 \/ line[1] = 35
             THEN ImportLines(acc, Tail(lines), category, from, how)
             ELSE LET r == IF IsValidIp(line)
                           THEN AddIpOp(acc.st, line, category,
                                        IoAt(from, how, acc.n + 1))
                           ELSE AddDomainOp(acc.st, line, category,
                                        IoAt(from, how, acc.n + 1))
                  IN  ImportLines(
                        [st |-> r.st, n |-> acc.n + 1,
                         count |-> IF r.ok THEN acc.count + 1 ELSE acc.count],
                        Tail(lines), category, from, how)

\* import_from_file(file_path, category): the store afterwards and the count
\* returned.
ImportFromFileOp(st, file, category, from, how) ==
    LET acc0 == [st |-> st, n |-> 0, count |-> 0]
    IN  IF file.kind \in {"missing", "corrupt"}
        THEN acc0
        ELSE IF file.kind = "json"
        THEN ImportJsonIps(
                ImportJsonDomains(acc0, DataGet(file.data, "domains"),
                                  category, from, how),
                DataGet(file.data, "ips"), category, from, how)
        ELSE ImportLines(acc0, file.data, category, from, how)

\* ---------------------------------------------------------- wire parsing

\* A packet as the interception facility hands it over.
Packet(proto, src_addr, src_port, dst_addr, dst_port, payload) ==
    [proto |-> proto, src_addr |-> src_addr, src_port |-> src_port,
     dst_addr |-> dst_addr, dst_port |-> dst_port, payload |-> payload]

\* bytes.decode('utf-8', errors='ignore') on ASCII bytes and bytes that are
\* never valid UTF-8 (the payloads of the model hold nothing else): the
\* invalid bytes are dropped.
Decode(bytes) == SelectSeq(bytes, LAMBDA b : b < 128)

\* The position of the DNS question name: the header is 12 bytes.
DnsHeaderLen == 12

\* The while loop of _extract_dns_domain from position pos (0-based) with
\* the labels collected so far.
RECURSIVE DnsLabels(_, _, _)
DnsLabels(payload, pos, parts) ==
    IF pos >= Len(payload) THEN parts
    ELSE LET length == payload[pos + 1]
         IN  IF length = 0 \/ length >= 192 THEN parts
             ELSE IF (pos + 1) + length <= Len(payload)
             THEN DnsLabels(payload, pos + 1 + length,
                    Append(parts, Decode(SubSeq(payload, pos + 2, pos + 1 + length))))
             ELSE parts

\* None, as _extract_dns_domain returns it.
NoDomain == [some |-> FALSE, domain |-> <<>>]

\* _extract_dns_domain without the final lower() (mutant).
ExtractDnsDomainRaw(payload) ==
    IF Len(payload) = 0 \/ Len(payload) < DnsHeaderLen + 1 THEN NoDomain
    ELSE LET parts == DnsLabels(payload, DnsHeaderLen, <<>>)
         IN  IF Len(parts) = 0 THEN NoDomain
             ELSE [some |-> TRUE, domain |-> Join(parts, chDot)]

\* _extract_dns_domain(packet)
ExtractDnsDomain(payload) ==
    IF Len(payload) = 0 \/ Len(payload) < DnsHeaderLen + 1 THEN NoDomain
    ELSE LET parts == DnsLabels(payload, DnsHeaderLen, <<>>)
         IN  IF Len(parts) = 0 THEN NoDomain
             ELSE [some |-> TRUE, domain |-> Lower(Join(parts, chDot))]

\* s.startswith(prefix)
StartsWith(s, prefix) ==
    Len(s) >= Len(prefix) /\ SubSeq(s, 1, Len(prefix)) = prefix

\* str.split('\r\n')
RECURSIVE SplitCRLF(_)
SplitCRLF(s) ==
    LET hits == {i \in 1..(Len(s) - 1) : s[i] = 13 /\ s[i + 1] = 10}
    IN  IF hits = {} THEN <<s>>
        ELSE LET k == CHOOSE i \in hits : \A j \in hits : i <= j
             IN  <<SubSeq(s, 1, k - 1)>> \o SplitCRLF(SubSeq(s, k + 2, Len(s)))

\* b'GET ', b'POST ', b'HEAD '
HttpMethods == {<<71, 69, 84, 32>>, <<80, 79, 83, 84, 32>>, <<72, 69, 65, 68, 32>>}

\* 'host:'
HostPrefix == <<104, 111, 115, 116, 58>>

\* line.split(':', 1)[1].strip() followed by host.split(':')[0]
HostOfLine(line) ==
    LET k == CHOOSE i \in 1..Len(line) :
                line[i] = 58 /\ \A j \in 1..(i - 1) : line[j] # 58
        host == Strip(SubSeq(line, k + 1, Len(line)))
    IN  Split(host, 58)[1]

\* ------------------------------------------------------- decision engine

\* (False, None)
Allow == [block |-> FALSE, text |-> "None", category |-> "None",
          domain |-> <<>>, reason |-> Reason("None", <<>>)]

\* (True, f"<text>{domain} ({category}): {reason}")
Block(text, domain, r) ==
    [block |-> TRUE, text |-> text, category |-> r.category,
     domain |-> domain, reason |-> r.reason]

\* cache[ip] = domain
CachePut(cache, ip, domain) ==
    [a \in DOMAIN cache \cup {ip} |-> IF a = ip THEN domain ELSE cache[a]]

\* The key under which a DNS response's domain is cached (mutant: the
\* response's source, the DNS server).
DnsCacheKeySource(packet) == packet.src_addr

\* The key under which a DNS response's domain is cached.
DnsCacheKey(packet) == packet.dst_addr

\* The loop of _should_block_packet over the lines of an HTTP request: every
\* line starting with 'host:' is cached and checked, the first blocked one
\* returns.
RECURSIVE HostLines(_, _, _, _)
HostLines(st, cache, dst_ip, lines) ==
    IF Len(lines) = 0 THEN [verdict |-> Allow, cache |-> cache]
    ELSE IF StartsWith(Lower(lines[1]), HostPrefix)
    THEN LET host == HostOfLine(lines[1])
             cache2 == CachePut(cache, dst_ip, host)
             r == IsDomainBlocked(st, host)
         IN  IF r.blocked
             THEN [verdict |-> Block("Blocked HTTP Host", host, r), cache |-> cache2]
             ELSE HostLines(st, cache2, dst_ip, Tail(lines))
    ELSE HostLines(st, cache, dst_ip, Tail(lines))

\* The HTTP/HTTPS part of _should_block_packet (mutant: a destination with a
\* cache entry is decided by the cached domain alone, the Host header being
\* read only without one).
HttpCheckCacheOnly(st, cache, packet) ==
    LET dst_ip == packet.dst_addr
    IN  IF dst_ip \in DOMAIN cache
        THEN LET cached == IsDomainBlocked(st, cache[dst_ip])
             IN  [verdict |-> IF cached.blocked
                              THEN Block("Blocked HTTP/HTTPS to", cache[dst_ip], cached)
                              ELSE Allow,
                  cache |-> cache]
        ELSE IF packet.dst_port = 80
                /\ \E m \in HttpMethods : StartsWith(packet.payload, m)
        THEN HostLines(st, cache, dst_ip, SplitCRLF(Decode(packet.payload)))
        ELSE [verdict |-> Allow, cache |-> cache]

\* The HTTP/HTTPS part of _should_block_packet (TCP to port 80 or 443).
HttpCheck(st, cache, packet) ==
    LET dst_ip == packet.dst_addr
        cached == IF dst_ip \in DOMAIN cache
                  THEN IsDomainBlocked(st, cache[dst_ip])
                  ELSE NotBlocked
    IN  IF cached.blocked
        THEN [verdict |-> Block("Blocked HTTP/HTTPS to", cache[dst_ip], cached),
              cache |-> cache]
        ELSE IF packet.dst_port = 80
                /\ \E m \in HttpMethods : StartsWith(packet.payload, m)
        THEN HostLines(st, cache, dst_ip, SplitCRLF(Decode(packet.payload)))
        ELSE [verdict |-> Allow, cache |-> cache]

\* if src_port == 53:  # DNS response     (mutant: queries are cached too)
IsDnsResponseOrQuery(packet) == packet.src_port = 53 \/ packet.dst_port = 53

\* if src_port == 53:  # DNS response
IsDnsResponse(packet) == packet.src_port = 53

\* The packets whose payload is inspected as DNS (mutant: queries only).
IsDnsPacketQueryOnly(packet) ==
    packet.proto = "UDP" /\ packet.dst_port = 53

\* The packets whose payload is inspected as DNS: UDP, port 53 on either side.
IsDnsPacket(packet) ==
    packet.proto = "UDP" /\ (packet.dst_port = 53 \/ packet.src_port = 53)

\* _should_block_packet(packet) (mutant: the DNS inspection runs, and writes
\* the Identity Cache, ahead of the IP check).
ShouldBlockPacketDnsFirst(st, cache, packet) ==
    LET byIp == IsIpBlocked(st, packet.dst_addr)
        dns == IF IsDnsPacket(packet) THEN ExtractDnsDomain(packet.payload) ELSE NoDomain
        found == dns.some /\ Len(dns.domain) > 0
        cache2 == IF found /\ IsDnsResponse(packet)
                  THEN CachePut(cache, DnsCacheKey(packet), dns.domain)
                  ELSE cache
        byDns == IF found THEN IsDomainBlocked(st, dns.domain) ELSE NotBlocked
    IN  IF byIp.blocked
        THEN [verdict |-> Block("Blocked IP", <<>>, byIp), cache |-> cache2]
        ELSE IF byDns.blocked
        THEN [verdict |-> Block("Blocked DNS", dns.domain, byDns), cache |-> cache2]
        ELSE IF packet.proto = "TCP" /\ packet.dst_port \in {80, 443}
        THEN HttpCheck(st, cache2, packet)
        ELSE [verdict |-> Allow, cache |-> cache2]

\* _should_block_packet(packet): the verdict and the Identity Cache after it.
ShouldBlockPacket(st, cache, packet) ==
    LET dst_ip == packet.dst_addr
        byIp == IsIpBlocked(st, dst_ip)
        isDns == IsDnsPacket(packet)
        dns == IF isDns THEN ExtractDnsDomain(packet.payload) ELSE NoDomain
        found == dns.some /\ Len(dns.domain) > 0
        cache2 == IF found /\ IsDnsResponse(packet)
                  THEN CachePut(cache, DnsCacheKey(packet), dns.domain)
                  ELSE cache
        byDns == IF found THEN IsDomainBlocked(st, dns.domain) ELSE NotBlocked
    IN  IF byIp.blocked
        THEN [verdict |-> Block("Blocked IP", <<>>, byIp), cache |-> cache]
        ELSE IF byDns.blocked
        THEN [verdict |-> Block("Blocked DNS", dns.domain, byDns), cache |-> cache2]
        ELSE IF packet.proto = "TCP" /\ packet.dst_port \in {80, 443}
        THEN HttpCheck(st, cache2, packet)
        ELSE [verdict |-> Allow, cache |-> cache2]

\* ----------------------------------------------------- ApplicationControl

\* ApplicationControl.rules is a dict in the form above: `value` is the key,
\* `category` the AppRule stored under it.

\* AppRule(process_name, action, enabled)
AppRule(process_name, action, enabled) ==
    [process_name |-> process_name, action |-> action, enabled |-> enabled]

\* load_rules(): every saved rule is stored under its process_name as saved.
RECURSIVE LoadRules(_, _)
LoadRules(rules_data, acc) ==
    IF Len(rules_data) = 0 THEN acc
    ELSE LoadRules(Tail(rules_data),
                   DictSet(acc, rules_data[1].process_name, rules_data[1]))

\* save_rules(): the list handed to config.set('app_control.rules', ...)
SaveRules(rules) == [i \in 1..Len(rules) |-> rules[i].category]

\* add_rule(process_name, action)
AddRuleOp(rules, process_name, action) ==
    DictSet(rules, Lower(process_name), AppRule(Lower(process_name), action, TRUE))

\* remove_rule(process_name): the rules afterwards and the value returned.
RemoveRuleOp(rules, process_name) ==
    LET k == Lower(process_name)
    IN  IF DictHas(rules, k)
        THEN [rules |-> DictDel(rules, k), ok |-> TRUE]
        ELSE [rules |-> rules, ok |-> FALSE]

\* toggle_rule(process_name, enabled): the rules afterwards and the value
\* returned.
ToggleRuleOp(rules, process_name, enabled) ==
    LET k == Lower(process_name)
    IN  IF DictHas(rules, k)
        THEN [rules |-> DictSet(rules, k,
                            [DictGet(rules, k) EXCEPT !.enabled = enabled]),
              ok |-> TRUE]
        ELSE [rules |-> rules, ok |-> FALSE]

\* should_block_process(name) (mutant: a disabled rule blocks as well).
ShouldBlockProcessIgnoresEnabled(rules, process_name) ==
    LET k == Lower(process_name)
    IN  IF DictHas(rules, k) /\ DictGet(rules, k).action = "block"
        THEN [block |-> TRUE, reason |-> "Blocked by app control rule"]
        ELSE [block |-> FALSE, reason |-> "None"]

\* should_block_process(name): (should_block, reason)
ShouldBlockProcess(rules, process_name) ==
    LET k == Lower(process_name)
    IN  IF /\ DictHas(rules, k)
           /\ DictGet(rules, k).enabled
           /\ DictGet(rules, k).action = "block"
        THEN [block |-> TRUE, reason |-> "Blocked by app control rule"]
        ELSE [block |-> FALSE, reason |-> "None"]

\* ------------------------------------------------------------------ state

VARIABLES
    blocklist,      \* the process's BlocklistManager (_blocklist_instance)
    export_file,    \* the file export_to_file wrote
    fresh,          \* a second BlocklistManager, constructed on an empty directory
    io_failures,    \* writes the storage has let fail so far
    input,          \* the argument drawn for the lookup under test
    ret,            \* the last operation called and what it returned
    dns_cache,      \* FilterEngine.dns_cache: IP -> domain
    dns_seen,       \* <<ip, domain>> of every DNS response evaluated so far
    running,        \* FilterEngine.running
    filter_thread,  \* FilterEngine.filter_thread: a thread id, 0 for None
    divert_handle,  \* FilterEngine.divert_handle: a handle id, 0 for None
    stats,          \* FilterEngine.stats
    config,         \* the configuration: the policies the engine reads and
                    \* the application rules as saved ('app_control.rules')
    pydivert_available, \* PYDIVERT_AVAILABLE
    threads,        \* the worker threads: where each is in _filter_loop
    handles,        \* the interception handles that are open
    now,            \* the clock datetime.now() reads
    caller,         \* where the thread calling start() / stop() is
    events,         \* how many events of each type the worker has emitted
    sent,           \* the packets reinjected (divert.send returned), in order
    app_rules,      \* ApplicationControl.rules: process name -> AppRule
    mutation        \* the Rule Store mutation another thread is in the middle of

rule_vars == <<blocklist, export_file, fresh, io_failures, input>>

engine_vars ==
    <<running, filter_thread, divert_handle, stats, config, pydivert_available,
      threads, handles, now, caller>>

cache_vars == <<dns_cache, dns_seen>>

sink_vars == <<events, sent>>

app_vars == <<app_rules>>

race_vars == <<mutation>>

vars ==
    <<blocklist, export_file, fresh, io_failures, input, ret, dns_cache, dns_seen,
      running, filter_thread, divert_handle, stats, config, pydivert_available,
      threads, handles, now, caller, events, sent, app_rules, mutation>>

\* No mutation of the Rule Store is under way.
NoMutation == [op |-> "none"]

\* What an operation returned: a bool (ok), a count, or a lookup's triple.
Ret(op, arg, ok, count, res) ==
    [op |-> op, arg |-> arg, ok |-> ok, count |-> count, res |-> res]

\* The storage fails a write only while it has failures left; `wrote` tells
\* whether the operation reached its write at all.
IoAllowed(io, wrote) == io = "ok" \/ (wrote /\ io_failures < MaxIoFailures)

IoCount(io) == IF io = "ok" THEN io_failures ELSE io_failures + 1

\* -------------------------------------------------- rule store operations

AddDomain(domain, category, io) ==
    /\ IoAllowed(io, AddDomainOp(blocklist, domain, category, "ok").ok)
    /\ \/ Len(blocklist.blocked_domains) < MaxRules
       \/ DictHas(blocklist.blocked_domains, Strip(Lower(domain)))
    /\ LET r == AddDomainOp(blocklist, domain, category, io)
       IN  /\ blocklist' = r.st
           /\ ret' = Ret("add_domain", [value |-> domain, category |-> category],
                         r.ok, 0, NotBlocked)
    /\ io_failures' = IoCount(io)
    /\ UNCHANGED <<sink_vars, app_vars, race_vars, export_file, fresh, input, cache_vars, engine_vars>>

AddIp(ip, category, io) ==
    /\ IoAllowed(io, AddIpOp(blocklist, ip, category, "ok").ok)
    /\ \/ Len(blocklist.blocked_ips) < MaxRules
       \/ DictHas(blocklist.blocked_ips, Strip(ip))
    /\ LET r == AddIpOp(blocklist, ip, category, io)
       IN  /\ blocklist' = r.st
           /\ ret' = Ret("add_ip", [value |-> ip, category |-> category],
                         r.ok, 0, NotBlocked)
    /\ io_failures' = IoCount(io)
    /\ UNCHANGED <<sink_vars, app_vars, race_vars, export_file, fresh, input, cache_vars, engine_vars>>

AddPattern(pattern, category, io) ==
    /\ IoAllowed(io, AddPatternOp(blocklist, pattern, category, "ok").ok)
    /\ Len(blocklist.blocked_patterns) < MaxRules
    /\ LET r == AddPatternOp(blocklist, pattern, category, io)
       IN  /\ blocklist' = r.st
           /\ ret' = Ret("add_pattern", [value |-> pattern, category |-> category],
                         r.ok, 0, NotBlocked)
    /\ io_failures' = IoCount(io)
    /\ UNCHANGED <<sink_vars, app_vars, race_vars, export_file, fresh, input, cache_vars, engine_vars>>

RemoveDomain(domain, io) ==
    /\ IoAllowed(io, RemoveDomainOp(blocklist, domain, "ok").ok)
    /\ LET r == RemoveDomainOp(blocklist, domain, io)
       IN  /\ blocklist' = r.st
           /\ ret' = Ret("remove_domain", domain, r.ok, 0, NotBlocked)
    /\ io_failures' = IoCount(io)
    /\ UNCHANGED <<sink_vars, app_vars, race_vars, export_file, fresh, input, cache_vars, engine_vars>>

RemoveIp(ip, io) ==
    /\ IoAllowed(io, RemoveIpOp(blocklist, ip, "ok").ok)
    /\ LET r == RemoveIpOp(blocklist, ip, io)
       IN  /\ blocklist' = r.st
           /\ ret' = Ret("remove_ip", ip, r.ok, 0, NotBlocked)
    /\ io_failures' = IoCount(io)
    /\ UNCHANGED <<sink_vars, app_vars, race_vars, export_file, fresh, input, cache_vars, engine_vars>>

ClearCategory(category, io) ==
    /\ IoAllowed(io, TRUE)
    /\ LET r == ClearCategoryOp(blocklist, category, io)
       IN  /\ blocklist' = r.st
           /\ ret' = Ret("clear_category", <<>>, r.ok, 0, NotBlocked)
    /\ io_failures' = IoCount(io)
    /\ UNCHANGED <<sink_vars, app_vars, race_vars, export_file, fresh, input, cache_vars, engine_vars>>

LoadBlocklistCall(io) ==
    /\ IoAllowed(io, blocklist.blocklist_file.kind = "missing")
    /\ LET r == LoadBlocklist(blocklist, io)
       IN  /\ blocklist' = r.st
           /\ ret' = Ret("load_blocklist", <<>>, r.ok, 0, NotBlocked)
    /\ io_failures' = IoCount(io)
    /\ UNCHANGED <<sink_vars, app_vars, race_vars, export_file, fresh, input, cache_vars, engine_vars>>

\* clear_category(category) as another thread runs it, statement by
\* statement: the three collections are rebuilt one after the other, then
\* the store is saved.
ClearCategoryStep(category) ==
    /\ IF mutation.op = "none"
       THEN /\ blocklist' = [blocklist EXCEPT !.blocked_domains =
                                SelectSeq(@, LAMBDA e : e.category # category)]
            /\ mutation' = [op |-> "clear_category", pc |-> "ips", i |-> 0,
                            category |-> category, before |-> blocklist]
            /\ UNCHANGED ret
       ELSE /\ mutation.op = "clear_category"
            /\ category = mutation.category
            /\ IF mutation.pc = "ips"
               THEN /\ blocklist' = [blocklist EXCEPT !.blocked_ips =
                                SelectSeq(@, LAMBDA e : e.category # category)]
                    /\ mutation' = [mutation EXCEPT !.pc = "patterns"]
                    /\ UNCHANGED ret
               ELSE LET st == [blocklist EXCEPT !.blocked_patterns =
                                SelectSeq(@, LAMBDA e : e.category # category)]
                        r == SaveBlocklist(st, "ok")
                    IN  /\ blocklist' = r.st
                        /\ mutation' = NoMutation
                        /\ ret' = Ret("clear_category", <<>>, r.ok, 0, NotBlocked)
    /\ UNCHANGED <<sink_vars, app_vars, export_file, fresh, io_failures, input,
                   cache_vars, engine_vars>>

\* load_blocklist() as another thread runs it on a readable rule file,
\* statement by statement: each collection is emptied, then filled entry by
\* entry from the document read.
LoadBlocklistStep ==
    /\ blocklist.blocklist_file.kind = "json"
    /\ LET data == blocklist.blocklist_file.data
           next(pc) == [mutation EXCEPT !.pc = pc, !.i = 0]
           more(entries) == mutation.i < Len(entries)
           entry(entries) == <<entries[mutation.i + 1]>>
           advance == [mutation EXCEPT !.i = @ + 1]
       IN  IF mutation.op = "none"
           THEN /\ blocklist' = [blocklist EXCEPT !.blocked_domains = <<>>]
                /\ mutation' = [op |-> "load_blocklist", pc |-> "domains", i |-> 0,
                                category |-> CategoryCustom, before |-> blocklist]
                /\ UNCHANGED ret
           ELSE /\ mutation.op = "load_blocklist"
                /\ IF mutation.pc = "domains"
                   THEN IF more(DataGet(data, "domains"))
                        THEN /\ blocklist' = [blocklist EXCEPT !.blocked_domains =
                                    LoadDomains(entry(DataGet(data, "domains")), @)]
                             /\ mutation' = advance
                             /\ UNCHANGED ret
                        ELSE /\ blocklist' = [blocklist EXCEPT !.blocked_ips = <<>>]
                             /\ mutation' = next("ips")
                             /\ UNCHANGED ret
                   ELSE IF mutation.pc = "ips"
                   THEN IF more(DataGet(data, "ips"))
                        THEN /\ blocklist' = [blocklist EXCEPT !.blocked_ips =
                                    LoadIps(entry(DataGet(data, "ips")), @)]
                             /\ mutation' = advance
                             /\ UNCHANGED ret
                        ELSE /\ blocklist' =
                                    [blocklist EXCEPT !.blocked_patterns = <<>>]
                             /\ mutation' = next("patterns")
                             /\ UNCHANGED ret
                   ELSE IF more(DataGet(data, "patterns"))
                        THEN /\ blocklist' = [blocklist EXCEPT !.blocked_patterns =
                                    LoadPatterns(entry(DataGet(data, "patterns")), @)]
                             /\ mutation' = advance
                             /\ UNCHANGED ret
                        ELSE /\ mutation' = NoMutation
                             /\ ret' = Ret("load_blocklist", <<>>, TRUE, 0, NotBlocked)
                             /\ UNCHANGED blocklist
    /\ UNCHANGED <<sink_vars, app_vars, export_file, fresh, io_failures, input,
                   cache_vars, engine_vars>>

QueryDomain(domain) ==
    /\ ret' = Ret("is_domain_blocked", domain, TRUE, 0,
                  IsDomainBlocked(blocklist, domain))
    /\ UNCHANGED <<sink_vars, app_vars, race_vars, rule_vars, cache_vars, engine_vars>>

\* add_rule(process_name, action): the rule is stored and the rules saved.
AddRule(process_name, action) ==
    /\ app_rules' = AddRuleOp(app_rules, process_name, action)
    /\ config' = [config EXCEPT !.app_control_rules = SaveRules(app_rules')]
    /\ ret' = Ret("add_rule", process_name, TRUE, 0, NotBlocked)
    /\ UNCHANGED <<sink_vars, race_vars, rule_vars, cache_vars, running,
                   filter_thread, divert_handle, stats, pydivert_available,
                   threads, handles, now, caller>>

\* remove_rule(process_name): the rules are saved when one was removed.
RemoveRule(process_name) ==
    /\ LET r == RemoveRuleOp(app_rules, process_name)
       IN  /\ app_rules' = r.rules
           /\ config' = IF r.ok
                        THEN [config EXCEPT !.app_control_rules = SaveRules(r.rules)]
                        ELSE config
           /\ ret' = Ret("remove_rule", process_name, r.ok, 0, NotBlocked)
    /\ UNCHANGED <<sink_vars, race_vars, rule_vars, cache_vars, running,
                   filter_thread, divert_handle, stats, pydivert_available,
                   threads, handles, now, caller>>

\* toggle_rule(process_name, enabled): the rules are saved when one was found.
ToggleRule(process_name, enabled) ==
    /\ LET r == ToggleRuleOp(app_rules, process_name, enabled)
       IN  /\ app_rules' = r.rules
           /\ config' = IF r.ok
                        THEN [config EXCEPT !.app_control_rules = SaveRules(r.rules)]
                        ELSE config
           /\ ret' = Ret("toggle_rule",
                         [process_name |-> process_name, enabled |-> enabled],
                         r.ok, 0, NotBlocked)
    /\ UNCHANGED <<sink_vars, race_vars, rule_vars, cache_vars, running,
                   filter_thread, divert_handle, stats, pydivert_available,
                   threads, handles, now, caller>>

\* should_block_process(process_name)
CheckProcess(process_name) ==
    /\ ret' = Ret("should_block_process", process_name, TRUE, 0,
                  ShouldBlockProcess(app_rules, process_name))
    /\ UNCHANGED <<sink_vars, app_vars, race_vars, rule_vars, cache_vars,
                   engine_vars>>

QueryIp(ip) ==
    /\ ret' = Ret("is_ip_blocked", ip, TRUE, 0, IsIpBlocked(blocklist, ip))
    /\ UNCHANGED <<sink_vars, app_vars, race_vars, rule_vars, cache_vars, engine_vars>>

ExportToFile(format, io) ==
    /\ IoAllowed(io, format \in {"json", "txt"})
    /\ LET r == ExportToFileOp(blocklist, export_file, format, io)
       IN  /\ export_file' = r.file
           /\ ret' = Ret("export_to_file", <<>>, r.ok, 0, NotBlocked)
    /\ io_failures' = IoCount(io)
    /\ UNCHANGED <<sink_vars, app_vars, race_vars, blocklist, fresh, input, cache_vars, engine_vars>>

\* A BlocklistManager constructed on an empty directory (its __init__ writes
\* the default file), then import_from_file of the exported file into it.
FreshImport(category, from, how) ==
    /\ LET r == ImportFromFileOp(NewStore("ok"), export_file, category, from, how)
       IN  /\ fresh' = r.st
           /\ ret' = Ret("import_from_file", <<>>, TRUE, r.count, NotBlocked)
    /\ UNCHANGED <<sink_vars, app_vars, race_vars, blocklist, export_file, io_failures, input, cache_vars, engine_vars>>

\* _should_block_packet(packet), called on its own. dns_seen notes the DNS
\* responses that got past the IP check and decoded to a domain the Rule
\* Store blocked at that moment; ret.count is 1 when the Identity Cache held
\* an entry for the packet's destination at the call, 0 otherwise.
Evaluate(packet) ==
    /\ LET r == ShouldBlockPacket(blocklist, dns_cache, packet)
           dns == ExtractDnsDomain(packet.payload)
       IN  /\ dns_cache' = r.cache
           /\ ret' = Ret("should_block_packet", packet, r.verdict.block,
                         IF packet.dst_addr \in DOMAIN dns_cache THEN 1 ELSE 0,
                         r.verdict)
           /\ dns_seen' =
                IF /\ packet.proto = "UDP" /\ packet.src_port = 53
                   /\ dns.some /\ Len(dns.domain) > 0
                   /\ ~IsIpBlocked(blocklist, packet.dst_addr).blocked
                   /\ IsDomainBlocked(blocklist, dns.domain).blocked
                THEN dns_seen \cup {<<packet.dst_addr, dns.domain>>}
                ELSE dns_seen
    /\ UNCHANGED <<sink_vars, app_vars, race_vars, rule_vars, engine_vars>>

\* _extract_dns_domain(packet), called on its own with the packet's payload.
ExtractDns(payload) ==
    /\ LET r == ExtractDnsDomain(payload)
       IN  ret' = Ret("extract_dns_domain", payload, r.some, 0, r)
    /\ UNCHANGED <<sink_vars, app_vars, race_vars, rule_vars, cache_vars, engine_vars>>

\* ----------------------------------------------------------- FilterEngine

\* No packet in hand.
NoPacket == Packet("NONE", <<>>, 0, <<>>, 0, <<>>)

\* threads with thread t moved to pc
At(t, pc) == [threads EXCEPT ![t].pc = pc]

\* start(): if self.running: return True
StartIsNoOp == running

\* start(). `spawn` tells whether threading.Thread.start() succeeds.
Start(spawn) ==
    /\ caller = "idle"
    /\ IF ~pydivert_available \/ ~config.filtering_enabled
       THEN /\ ret' = Ret("start",
                      [was_running |-> running, enabled |-> config.filtering_enabled,
                       thread |-> 0],
                      FALSE, 0, NotBlocked)
            /\ UNCHANGED <<running, stats, filter_thread, threads>>
       ELSE IF StartIsNoOp
       THEN /\ ret' = Ret("start",
                      [was_running |-> TRUE, enabled |-> TRUE, thread |-> 0],
                      TRUE, 0, NotBlocked)
            /\ UNCHANGED <<running, stats, filter_thread, threads>>
       ELSE /\ \E t \in 1..MaxThreads : threads[t].pc = "unborn"
            /\ LET t == CHOOSE t \in 1..MaxThreads :
                            /\ threads[t].pc = "unborn"
                            /\ \A u \in 1..(t - 1) : threads[u].pc # "unborn"
               IN  /\ stats' = [stats EXCEPT !.start_time = now]
                   /\ filter_thread' = t
                   /\ running' = (spawn = "ok")
                   /\ threads' = At(t, IF spawn = "ok" THEN "open" ELSE "failed")
                   /\ ret' = Ret("start",
                          [was_running |-> FALSE, enabled |-> TRUE, thread |-> t],
                          spawn = "ok", 0, NotBlocked)
    /\ UNCHANGED <<sink_vars, app_vars, race_vars, rule_vars, cache_vars, divert_handle, config,
                   pydivert_available, handles, now, caller>>

\* stop() up to its join. `closed` tells what close() does on a handle that
\* is closed already: it raises, or it does nothing.
StopBegin(closed) ==
    /\ caller = "idle"
    /\ IF ~running
       THEN /\ ret' = Ret("stop", [was_running |-> FALSE, thread |-> filter_thread],
                          TRUE, 0, NotBlocked)
            /\ UNCHANGED <<running, divert_handle, handles, caller>>
       ELSE /\ running' = FALSE
            /\ IF divert_handle # 0 /\ divert_handle \notin handles
                  /\ closed = "raises"
               THEN /\ ret' = Ret("stop",
                              [was_running |-> TRUE, thread |-> filter_thread],
                              FALSE, 0, NotBlocked)
                    /\ UNCHANGED <<divert_handle, handles, caller>>
               ELSE /\ handles' = handles \ {divert_handle}
                    /\ divert_handle' = 0
                    /\ caller' = "joining"
                    /\ ret' = Ret("stop_joining",
                              [was_running |-> TRUE, thread |-> filter_thread],
                              TRUE, 0, NotBlocked)
    /\ UNCHANGED <<sink_vars, app_vars, race_vars, rule_vars, cache_vars, filter_thread, stats, config,
                   pydivert_available, threads, now>>

\* stop() from its join on: the join returns because the worker finished or
\* because its 5 seconds ran out, and stop() reports success.
StopReturn ==
    /\ caller = "joining"
    /\ caller' = "idle"
    /\ ret' = Ret("stop", [was_running |-> TRUE, thread |-> filter_thread],
                  TRUE, 0, NotBlocked)
    /\ UNCHANGED <<sink_vars, app_vars, race_vars, rule_vars, cache_vars, running, filter_thread, divert_handle,
                   stats, config, pydivert_available, threads, handles, now>>

\* _filter_loop: pydivert.WinDivert(filter_str) is opened, or raises (driver
\* unavailable, permission denied).
WorkerOpen(t, outcome) ==
    /\ threads[t].pc = "open"
    /\ IF outcome = "ok"
       THEN /\ handles' = handles \cup {t}
            /\ threads' = [threads EXCEPT ![t].pc = "assign", ![t].handle = t]
       ELSE /\ threads' = At(t, "except")
            /\ UNCHANGED handles
    /\ UNCHANGED <<sink_vars, app_vars, race_vars, rule_vars, cache_vars, ret, running, filter_thread,
                   divert_handle, stats, config, pydivert_available, now, caller>>

\* _filter_loop: self.divert_handle = divert
WorkerAssign(t) ==
    /\ threads[t].pc = "assign"
    /\ divert_handle' = t
    /\ threads' = At(t, "recv")
    /\ UNCHANGED <<sink_vars, app_vars, race_vars, rule_vars, cache_vars, ret, running, filter_thread, stats,
                   config, pydivert_available, handles, now, caller>>

\* _filter_loop: the iteration over the handle yields a packet.
WorkerRecv(t, packet) ==
    /\ threads[t].pc = "recv"
    /\ t \in handles
    /\ stats.packets_inspected < MaxPackets
    /\ threads' = [threads EXCEPT ![t].pc = "got", ![t].packet = packet]
    /\ UNCHANGED <<sink_vars, app_vars, race_vars, rule_vars, cache_vars, ret, running, filter_thread,
                   divert_handle, stats, config, pydivert_available, handles,
                   now, caller>>

\* _filter_loop: the iteration over the handle fails. On a closed handle it
\* raises or ends the iteration; on an open one the facility raises and the
\* with statement closes the handle on the way out.
WorkerRecvFail(t, outcome) ==
    /\ threads[t].pc = "recv"
    /\ t \in handles => outcome = "raises"
    /\ handles' = handles \ {t}
    /\ threads' = At(t, IF outcome = "raises" THEN "except" ELSE "leave")
    /\ UNCHANGED <<sink_vars, app_vars, race_vars, rule_vars, cache_vars, ret, running, filter_thread,
                   divert_handle, stats, config, pydivert_available, now, caller>>

\* _filter_loop: if not self.running: break
WorkerCheck(t) ==
    /\ threads[t].pc = "got"
    /\ threads' = At(t, IF running THEN "inspect" ELSE "leave")
    /\ UNCHANGED <<sink_vars, app_vars, race_vars, rule_vars, cache_vars, ret, running, filter_thread,
                   divert_handle, stats, config, pydivert_available, handles,
                   now, caller>>

\* _filter_loop: packets_inspected += 1 and the call of _should_block_packet.
WorkerInspect(t) ==
    /\ threads[t].pc = "inspect"
    /\ LET r == ShouldBlockPacket(blocklist, dns_cache, threads[t].packet)
       IN  /\ dns_cache' = r.cache
           /\ threads' = [threads EXCEPT ![t].pc = "verdict",
                                         ![t].verdict = r.verdict]
    /\ stats' = [stats EXCEPT !.packets_inspected = @ + 1]
    /\ UNCHANGED <<sink_vars, app_vars, race_vars, rule_vars, dns_seen, ret, running, filter_thread,
                   divert_handle, config, pydivert_available, handles, now,
                   caller>>

\* _filter_loop: packets_inspected += 1, then is_ip_blocked(dst_ip) as far as
\* its test 'if ip in self.blocked_ips', which finds the address.
WorkerInspectFound(t) ==
    /\ threads[t].pc = "inspect"
    /\ DictHas(blocklist.blocked_ips, Strip(threads[t].packet.dst_addr))
    /\ stats' = [stats EXCEPT !.packets_inspected = @ + 1]
    /\ threads' = At(t, "lookup")
    /\ UNCHANGED <<sink_vars, app_vars, race_vars, rule_vars, cache_vars, ret, running, filter_thread,
                   divert_handle, config, pydivert_available, handles, now,
                   caller>>

\* is_ip_blocked: 'return (True, self.blocked_ips[ip], "Exact match")' after
\* the test succeeded. No lock is held in between: if remove_ip() has deleted
\* the key meanwhile, the subscript raises KeyError, which leaves
\* _should_block_packet and reaches the handler of _filter_loop.
WorkerInspectFetch(t) ==
    /\ threads[t].pc = "lookup"
    /\ IF DictHas(blocklist.blocked_ips, Strip(threads[t].packet.dst_addr))
       THEN threads' = [threads EXCEPT
                ![t].pc = "verdict",
                ![t].verdict = ShouldBlockPacket(blocklist, dns_cache,
                                                 threads[t].packet).verdict]
       ELSE threads' = At(t, "except")
    /\ UNCHANGED <<sink_vars, app_vars, race_vars, rule_vars, cache_vars, ret, running, filter_thread,
                   divert_handle, stats, config, pydivert_available, handles,
                   now, caller>>

\* if self.config.get('monitoring.log_all_traffic', False):
\*     self._log_allowed_packet(packet)     (mutant: logged whatever is set)
LogAllowedAlways(ev, cfg) == [ev EXCEPT !.traffic_allowed = @ + 1]

\* if self.config.get('monitoring.log_all_traffic', False):
\*     self._log_allowed_packet(packet)
LogAllowed(ev, cfg) ==
    IF cfg.log_all_traffic THEN [ev EXCEPT !.traffic_allowed = @ + 1] ELSE ev

\* _filter_loop: the branch taken on the verdict. A blocked packet is
\* counted, logged and dropped; an allowed one is counted, logged when
\* monitoring.log_all_traffic is set, and reinjected, and divert.send raises
\* when the handle is closed or the facility fails.
WorkerVerdict(t, send) ==
    /\ threads[t].pc = "verdict"
    /\ IF threads[t].verdict.block
       THEN /\ stats' = [stats EXCEPT !.packets_blocked = @ + 1]
            /\ events' = [events EXCEPT !.traffic_blocked = @ + 1]
            /\ threads' = [threads EXCEPT ![t].pc = "recv", ![t].packet = NoPacket]
            /\ UNCHANGED <<handles, sent>>
       ELSE /\ stats' = [stats EXCEPT !.packets_allowed = @ + 1]
            /\ events' = LogAllowed(events, config)
            /\ IF t \in handles /\ send = "ok"
               THEN /\ sent' = Append(sent, threads[t].packet)
                    /\ threads' = [threads EXCEPT ![t].pc = "recv",
                                                  ![t].packet = NoPacket]
                    /\ UNCHANGED handles
               ELSE /\ threads' = At(t, "except")
                    /\ handles' = handles \ {t}
                    /\ UNCHANGED sent
    /\ UNCHANGED <<app_vars, race_vars, rule_vars, cache_vars, ret, running, filter_thread,
                   divert_handle, config, pydivert_available, now, caller>>

\* _filter_loop: the with statement closes the handle after the loop. On a
\* handle that stop() closed already, close() raises or does nothing.
WorkerLeave(t, closed) ==
    /\ threads[t].pc = "leave"
    /\ handles' = handles \ {t}
    /\ threads' = At(t, IF t \notin handles /\ closed = "raises"
                        THEN "except" ELSE "done")
    /\ UNCHANGED <<sink_vars, app_vars, race_vars, rule_vars, cache_vars, ret, running, filter_thread,
                   divert_handle, stats, config, pydivert_available, now, caller>>

\* _filter_loop: except Exception (mutant: the running flag is left alone).
WorkerExceptKeepsRunning(t) ==
    /\ threads[t].pc = "except"
    /\ events' = [events EXCEPT !.error = @ + 1]
    /\ UNCHANGED running
    /\ threads' = At(t, "done")
    /\ UNCHANGED <<sent, app_vars, race_vars, rule_vars, cache_vars, ret, filter_thread, divert_handle,
                   stats, config, pydivert_available, handles, now, caller>>

\* _filter_loop: except Exception: the error is logged, self.running = False
WorkerExcept(t) ==
    /\ threads[t].pc = "except"
    /\ events' = [events EXCEPT !.error = @ + 1]
    /\ running' = FALSE
    /\ threads' = At(t, "done")
    /\ UNCHANGED <<sent, app_vars, race_vars, rule_vars, cache_vars, ret, filter_thread, divert_handle,
                   stats, config, pydivert_available, handles, now, caller>>

\* config.set('filtering.enabled', value)
SetFilteringEnabled(value) ==
    /\ caller = "idle"
    /\ config' = [config EXCEPT !.filtering_enabled = value]
    /\ ret' = Ret("config.set", <<>>, TRUE, 0, NotBlocked)
    /\ UNCHANGED <<sink_vars, app_vars, race_vars, rule_vars, cache_vars, running, filter_thread, divert_handle,
                   stats, pydivert_available, threads, handles, now, caller>>

\* Time passes.
Tick ==
    /\ now < MaxClock
    /\ now' = now + 1
    /\ UNCHANGED <<sink_vars, app_vars, race_vars, rule_vars, cache_vars, ret, running, filter_thread,
                   divert_handle, stats, config, pydivert_available, threads,
                   handles, caller>>

\* ---------------------------------------------------------- initial state

\* A thread that start() has not created yet.
NoThread == [pc |-> "unborn", handle |-> 0, packet |-> NoPacket, verdict |-> Allow]

\* FilterEngine.__init__, and the configuration and clock it runs under.
EngineInit ==
    /\ running = FALSE
    /\ filter_thread = 0
    /\ divert_handle = 0
    /\ stats = [packets_inspected |-> 0, packets_allowed |-> 0,
                packets_blocked |-> 0, start_time |-> 0]
    /\ dns_cache = <<>>
    /\ dns_seen = {}
    /\ threads = [t \in 1..MaxThreads |-> NoThread]
    /\ handles = {}
    /\ now = 1
    /\ caller = "idle"
    /\ events = [traffic_blocked |-> 0, traffic_allowed |-> 0, error |-> 0]
    /\ sent = <<>>

\* No application rule, and no Rule Store mutation under way.
IdleInit ==
    /\ app_rules = <<>>
    /\ mutation = NoMutation

\* The configuration as shipped (filtering off) with PyDivert installed.
ConfigDefault ==
    /\ config = [filtering_enabled |-> FALSE, log_all_traffic |-> FALSE,
                 app_control_rules |-> <<>>]
    /\ pydivert_available = TRUE

\* No lookup under test, nothing exported, no second store.
RestInit ==
    /\ export_file = FileMissing
    /\ fresh = NewStore("ok")
    /\ io_failures = 0
    /\ input = <<>>
    /\ ret = Ret("init", <<>>, TRUE, 0, NotBlocked)

\* The process after BlocklistManager.__init__ ran on an empty directory:
\* nothing in memory, the default file written unless the write failed.
RuleInit ==
    /\ \E io \in {"ok", "open_error"} : blocklist = NewStore(io)
    /\ RestInit
    /\ EngineInit
    /\ IdleInit
    /\ ConfigDefault

\* ------------------------------------------------------------ input sets

Categories == {"malware", CategoryCustom}

\* "b", " A.B " (normalised to "a.b"), "a/b", ""
DomainArgs == {s_b, s_AB_sp, s_slash, s_empty}

\* " 1.1.1.1" (stripped to "1.1.1.1"), "999.1.1.1"
IpArgs == {ip_sp, ip_999}

\* "b", "(" 
PatternArgs == {s_b, s_paren}

\* ------------------------------------------------- the rule store at work

RulesNext ==
    \/ \E d \in DomainArgs, c \in Categories, io \in IoOutcomes : AddDomain(d, c, io)
    \/ \E a \in IpArgs, c \in Categories, io \in IoOutcomes : AddIp(a, c, io)
    \/ \E p \in PatternArgs, c \in Categories, io \in IoOutcomes : AddPattern(p, c, io)
    \/ \E d \in DomainArgs, io \in IoOutcomes : RemoveDomain(d, io)
    \/ \E a \in IpArgs, io \in IoOutcomes : RemoveIp(a, io)
    \/ \E c \in Categories, io \in IoOutcomes : ClearCategory(c, io)
    \/ \E io \in IoOutcomes : LoadBlocklistCall(io)

SpecRules == RuleInit /\ [][RulesNext]_vars

\* ------------------------------------------------ lookups as functions

\* All sequences over S of length at most n.
SeqsUpTo(S, n) == UNION {[1..k -> S] : k \in 0..n}

\* The dicts of at most n entries with keys and categories from the sets.
DictsUpTo(keys, cats, n) ==
    {d \in SeqsUpTo([value : keys, category : cats], n) :
        \A i, j \in 1..Len(d) : i # j => d[i].value # d[j].value}

\* The stores that add_domain, add_ip and add_pattern build, every write
\* succeeding, from the given keys and pattern sources: the file holds what
\* memory holds.
BuiltStores(domains, ips, patterns) ==
    {[st EXCEPT !.blocklist_file = FileJson(SaveData(st))] :
        st \in [blocked_domains : DictsUpTo(domains, Categories, MaxRules),
                blocked_ips : DictsUpTo(ips, Categories, MaxRules),
                blocked_patterns :
                    SeqsUpTo([pattern : patterns, category : Categories], MaxRules),
                blocklist_file : {FileMissing}]}

\* The letters 'a', 'b' and the dot.
QueryAlphabet == {97, 98, chDot}

\* The domains looked up: every string of the alphabet up to MaxLen, and
\* " A.B ", which lower() and strip() change.
QueryDomains == SeqsUpTo(QueryAlphabet, MaxLen) \cup {s_AB_sp}

\* Rule keys "b" and "a.b"; patterns "a" and "B".
QueryStores == BuiltStores({s_b, s_a_b}, {}, {<<97>>, s_B})

QueryInit ==
    /\ blocklist \in QueryStores
    /\ input \in QueryDomains
    /\ export_file = FileMissing
    /\ fresh = NewStore("ok")
    /\ io_failures = 0
    /\ ret = Ret("init", <<>>, TRUE, 0, NotBlocked)
    /\ EngineInit
    /\ IdleInit
    /\ ConfigDefault

QueryNext == QueryDomain(input)

SpecQuery == QueryInit /\ [][QueryNext]_vars

\* ------------------------------------------------- export and fresh load

\* Rule keys "b" and "a.b", IP "1.1.1.1", pattern "b".
ExportStores == BuiltStores({s_b, s_a_b}, {ip_1}, {s_b})

ExportInit ==
    /\ blocklist \in ExportStores
    /\ RestInit
    /\ EngineInit
    /\ IdleInit
    /\ ConfigDefault

ExportNext ==
    \/ \E f \in {"json", "txt", "csv"}, io \in IoOutcomes : ExportToFile(f, io)
    \/ \E from \in 1..(MaxRules + 2) :
            FreshImport(CategoryCustom, from, "write_error")

SpecExport == ExportInit /\ [][ExportNext]_vars

\* ------------------------------------------------- IP rules as functions

\* The texts tried as an octet: "1", "255", "256", "+1", "-0", "a", "", " 1".
IpOctets ==
    {<<49>>, <<50, 53, 53>>, <<50, 53, 54>>, <<43, 49>>, <<45, 48>>, <<97>>,
     <<>>, <<32, 49>>}

\* The values handed to add_ip: x.1.1.y for all octet texts x and y, and
\* values of three and of five parts.
IpInputs ==
    {x \o <<46, 49, 46, 49, 46>> \o y : x, y \in IpOctets}
        \cup {<<49, 46, 49, 46, 49>>, <<49, 46, 49, 46, 49, 46, 49, 46, 49>>}

IpInit ==
    /\ blocklist = NewStore("ok")
    /\ input \in IpInputs
    /\ export_file = FileMissing
    /\ fresh = NewStore("ok")
    /\ io_failures = 0
    /\ ret = Ret("init", <<>>, TRUE, 0, NotBlocked)
    /\ EngineInit
    /\ IdleInit
    /\ ConfigDefault

IpNext ==
    \/ \E c \in Categories : AddIp(input, c, "ok")
    \/ \E a \in {input, ip_2} : QueryIp(a)
    \/ RemoveIp(input, "ok")
    \/ \E d \in {s_slash, s_empty} : AddDomain(d, CategoryCustom, "ok")
    \/ AddPattern(s_paren, CategoryCustom, "ok")

SpecIp == IpInit /\ [][IpNext]_vars

\* ------------------------------------- lookups while the store is changed

\* The store holds what its rule file holds; "b" or "a.a.b" is looked up
\* while another thread clears a category or reloads the file.
RaceInit ==
    /\ blocklist \in ExportStores
    /\ input \in {s_b, s_a_a_b}
    /\ export_file = FileMissing
    /\ fresh = NewStore("ok")
    /\ io_failures = 0
    /\ ret = Ret("init", <<>>, TRUE, 0, NotBlocked)
    /\ EngineInit
    /\ IdleInit
    /\ ConfigDefault

RaceNext ==
    \/ \E c \in Categories : ClearCategoryStep(c)
    \/ LoadBlocklistStep
    \/ QueryDomain(input)

SpecRace == RaceInit /\ [][RaceNext]_vars

\* ------------------------------------------------ the DNS name parser

\* The bytes of the payloads tried: 0, 1 and 2 (also length bytes), 'A', 'b'
\* and 200 (a compression pointer as a length byte, invalid UTF-8 as text).
WireBytes == {0, 1, 2, 65, 98, 200}

\* The bytes of the labels of the names built: 2, 'A', 'b'.
LabelBytes == {2, 65, 98}

\* The names built: at most MaxLabels labels of 1..MaxLabelLen bytes, and
\* www.example.com.
WireLabelSeqs ==
    (SeqsUpTo(SeqsUpTo(LabelBytes, MaxLabelLen) \ {<<>>}, MaxLabels) \ {<<>>})
        \cup {<< <<119, 119, 119>>, <<101, 120, 97, 109, 112, 108, 101>>,
                 <<99, 111, 109>> >>}

\* The wire form of a sequence of labels: each label after its length byte.
RECURSIVE EncodeLabels(_)
EncodeLabels(labels) ==
    IF Len(labels) = 0 THEN <<>>
    ELSE <<Len(labels[1])>> \o labels[1] \o EncodeLabels(Tail(labels))

\* The payloads handed to the parser: a header followed by any bytes up to
\* MaxLen, the names built (zero-terminated), payloads shorter than a header.
WirePayloads ==
    {DnsPayload(b) : b \in SeqsUpTo(WireBytes, MaxLen)}
        \cup {DnsPayload(EncodeLabels(ls) \o <<0>>) : ls \in WireLabelSeqs}
        \cup {<<>>, <<1, 98, 0>>}

WireInit ==
    /\ blocklist = NewStore("ok")
    /\ input \in WirePayloads
    /\ export_file = FileMissing
    /\ fresh = NewStore("ok")
    /\ io_failures = 0
    /\ ret = Ret("init", <<>>, TRUE, 0, NotBlocked)
    /\ EngineInit
    /\ IdleInit
    /\ ConfigDefault

WireNext == ExtractDns(input)

SpecWire == WireInit /\ [][WireNext]_vars

\* ------------------------------------------------ the HTTP Host header

\* '\r\n'
CRLF == <<13, 10>>

\* Request-line prefixes tried: "GET ", "POST ", "HEAD ", "PUT ", "get ".
HostMethods == HttpMethods \cup {<<80, 85, 84, 32>>, <<103, 101, 116, 32>>}

\* Header lines tried: "Host: ab:80", "HOST:ab", "host: AB ", "Host: [::1]:80",
\* "X: y" and " Host: ab" (which does not start with the header name).
HostHeaderLines ==
    {<<72, 111, 115, 116, 58, 32, 97, 98, 58, 56, 48>>,
     <<72, 79, 83, 84, 58, 97, 98>>,
     <<104, 111, 115, 116, 58, 32, 65, 66, 32>>,
     <<72, 111, 115, 116, 58, 32, 91, 58, 58, 49, 93, 58, 56, 48>>,
     <<88, 58, 32, 121>>,
     <<32, 72, 111, 115, 116, 58, 32, 97, 98>>}

\* The TCP packets tried, to ports 80, 443 and 8080: a request line, one
\* header line and the empty line.
HostPackets ==
    {Packet("TCP", ip_2, 5000, ip_1, port, m \o <<47>> \o CRLF \o h \o CRLF \o CRLF) :
        port \in {80, 443, 8080}, m \in HostMethods, h \in HostHeaderLines}

HostInit ==
    /\ blocklist = NewStore("ok")
    /\ input \in HostPackets
    /\ export_file = FileMissing
    /\ fresh = NewStore("ok")
    /\ io_failures = 0
    /\ ret = Ret("init", <<>>, TRUE, 0, NotBlocked)
    /\ EngineInit
    /\ IdleInit
    /\ ConfigDefault

HostNext == Evaluate(input)

SpecHost == HostInit /\ [][HostNext]_vars

\* ------------------------------------------------ the decision engine

\* The packets handed to the decision engine. The host sends from 2.2.2.2;
\* 1.1.1.1 is the peer.
pkt_dns_resp_b == Packet("UDP", ip_2, 53, ip_1, 5000, DnsPayload(<<1, 98, 0>>))
pkt_dns_resp_ab == Packet("UDP", ip_2, 53, ip_1, 5000, DnsPayload(<<2, 97, 98, 0>>))
pkt_dns_query_b == Packet("UDP", ip_2, 5000, ip_1, 53, DnsPayload(<<1, 98, 0>>))
pkt_tcp443 == Packet("TCP", ip_2, 5000, ip_1, 443, <<>>)
pkt_http_ab == Packet("TCP", ip_2, 5000, ip_1, 80, http_host_ab)
\* "GET /\r\nHost: b\r\n\r\n"
pkt_http_b ==
    Packet("TCP", ip_2, 5000, ip_1, 80,
           <<71, 69, 84, 32, 47>> \o CRLF \o <<72, 111, 115, 116, 58, 32, 98>>
               \o CRLF \o CRLF)
\* A DNS message for "b" in a TCP packet to port 53.
pkt_dns_tcp_b == Packet("TCP", ip_2, 5000, ip_1, 53, DnsPayload(<<1, 98, 0>>))

DecidePackets ==
    {pkt_dns_resp_b, pkt_dns_resp_ab, pkt_dns_query_b, pkt_tcp443, pkt_http_ab,
     pkt_http_b, pkt_dns_tcp_b}

DecideInit ==
    /\ blocklist = NewStore("ok")
    /\ RestInit
    /\ EngineInit
    /\ IdleInit
    /\ ConfigDefault

DecideNext ==
    \/ \E p \in DecidePackets : Evaluate(p)
    \/ \E c \in Categories : AddDomain(s_b, c, "ok")
    \/ \E c \in Categories : AddIp(ip_1, c, "ok")
    \/ RemoveIp(ip_1, "ok")

\* No domain rule is removed here: a rule that blocks a domain keeps blocking
\* it (its category may change).
SpecDecide == DecideInit /\ [][DecideNext]_vars

\* ------------------------------------------- the application policy store

\* The process names tried: "a" and "A".
AppNames == {<<97>>, <<65>>}

AppActions == {"block", "allow"}

\* The rules settings.json holds at startup: at most MaxRules, under either
\* name (the file can be edited by hand).
SavedRules ==
    SeqsUpTo([process_name : AppNames, action : AppActions, enabled : BOOLEAN],
             MaxRules)

\* The process after ApplicationControl.__init__ loaded the saved rules. All
\* traffic evaluated comes from the process named by `input`.
AppInit ==
    /\ blocklist = NewStore("ok")
    /\ input \in AppNames
    /\ export_file = FileMissing
    /\ fresh = NewStore("ok")
    /\ io_failures = 0
    /\ ret = Ret("init", <<>>, TRUE, 0, NotBlocked)
    /\ EngineInit
    /\ mutation = NoMutation
    /\ pydivert_available = TRUE
    /\ \E saved \in SavedRules :
          /\ config = [filtering_enabled |-> FALSE, log_all_traffic |-> FALSE,
                       app_control_rules |-> saved]
          /\ app_rules = LoadRules(saved, <<>>)

AppNext ==
    \/ \E n \in AppNames, a \in AppActions : AddRule(n, a)
    \/ \E n \in AppNames : RemoveRule(n)
    \/ \E n \in AppNames, e \in BOOLEAN : ToggleRule(n, e)
    \/ \E n \in AppNames : CheckProcess(n)
    \/ Evaluate(pkt_tcp443)

SpecApp == AppInit /\ [][AppNext]_vars

\* ------------------------------------- the engine among the other callers

\* The rule file found at process start: domain "b" tagged malware.
EngineStore ==
    LET st == [blocked_domains |-> <<[value |-> s_b, category |-> "malware"]>>,
               blocked_ips |-> <<>>, blocked_patterns |-> <<>>,
               blocklist_file |-> FileMissing]
    IN  Loaded(FileJson(SaveData(st))).st


\* The packets delivered: a DNS response for "ab", a DNS query for "b", an
\* HTTP request with 'Host: b', a TCP packet to port 443.
FramePackets == {pkt_dns_resp_ab, pkt_dns_query_b, pkt_http_b, pkt_tcp443}

\* Filtering is enabled; the rule file holds domain "b".
FrameInit ==
    /\ blocklist = EngineStore
    /\ RestInit
    /\ EngineInit
    /\ IdleInit
    /\ config = [filtering_enabled |-> TRUE, log_all_traffic |-> FALSE,
                 app_control_rules |-> <<>>]
    /\ pydivert_available = TRUE

\* The worker runs while start(), stop(), Rule Store operations and
\* Application Policy operations are called.
FrameNext ==
    \/ Start("ok")
    \/ StopBegin("noop")
    \/ StopReturn
    \/ RemoveDomain(s_b, "ok")
    \/ AddRule(<<97>>, "block")
    \/ \E t \in 1..MaxThreads :
        \/ WorkerOpen(t, "ok")
        \/ WorkerAssign(t)
        \/ \E packet \in FramePackets : WorkerRecv(t, packet)
        \/ WorkerRecvFail(t, "ends")
        \/ WorkerCheck(t)
        \/ WorkerInspect(t)
        \/ WorkerVerdict(t, "ok")
        \/ WorkerLeave(t, "noop")

SpecFrame == FrameInit /\ [][FrameNext]_vars

\* --------------------------------------- the engine and a rule's removal

\* The rule file found at process start: address 1.1.1.1 tagged custom.
CountStore ==
    LET st == [blocked_domains |-> <<>>,
               blocked_ips |-> <<[value |-> ip_1, category |-> CategoryCustom]>>,
               blocked_patterns |-> <<>>,
               blocklist_file |-> FileMissing]
    IN  Loaded(FileJson(SaveData(st))).st

CountInit ==
    /\ blocklist = CountStore
    /\ RestInit
    /\ EngineInit
    /\ IdleInit
    /\ config = [filtering_enabled |-> TRUE, log_all_traffic |-> FALSE,
                 app_control_rules |-> <<>>]
    /\ pydivert_available = TRUE

\* The worker decides packets to 1.1.1.1 while the rule for 1.1.1.1 is
\* removed and added again by another thread, across start() and stop().
CountNext ==
    \/ Start("ok")
    \/ StopBegin("noop")
    \/ StopReturn
    \/ AddIp(ip_1, CategoryCustom, "ok")
    \/ RemoveIp(ip_1, "ok")
    \/ \E t \in 1..MaxThreads :
        \/ WorkerOpen(t, "ok")
        \/ WorkerAssign(t)
        \/ WorkerRecv(t, pkt_tcp443)
        \/ WorkerRecvFail(t, "ends")
        \/ WorkerCheck(t)
        \/ WorkerInspect(t)
        \/ WorkerInspectFound(t)
        \/ WorkerInspectFetch(t)
        \/ \E send \in {"ok", "error"} : WorkerVerdict(t, send)
        \/ WorkerLeave(t, "noop")
        \/ WorkerExcept(t)

SpecCount == CountInit /\ [][CountNext]_vars

\* ------------------------------------------- the engine, fairly scheduled

\* A step worker t takes on its own once it is scheduled: everything but the
\* arrival of a packet and a failure of the facility on an open handle.
\* Retrieval on a handle that has been closed returns at once, by raising.
WorkerRuns(t) ==
    \/ WorkerOpen(t, "ok")
    \/ WorkerAssign(t)
    \/ t \notin handles /\ WorkerRecvFail(t, "raises")
    \/ WorkerCheck(t)
    \/ WorkerInspect(t)
    \/ WorkerVerdict(t, "ok")
    \/ WorkerLeave(t, "noop")
    \/ WorkerExcept(t)

LiveInit ==
    /\ blocklist = EngineStore
    /\ RestInit
    /\ EngineInit
    /\ IdleInit
    /\ config = [filtering_enabled |-> TRUE, log_all_traffic |-> FALSE,
                 app_control_rules |-> <<>>]
    /\ pydivert_available = TRUE

LiveNext ==
    \/ Start("ok")
    \/ StopBegin("noop")
    \/ StopReturn
    \/ \E t \in 1..MaxThreads :
        \/ WorkerRuns(t)
        \/ WorkerRecv(t, pkt_tcp443)

\* Every worker thread is scheduled again and again, and the join in stop()
\* returns (threading.Thread.join(timeout=5.0)).
SpecLive ==
    /\ LiveInit
    /\ [][LiveNext]_vars
    /\ \A t \in 1..MaxThreads : WF_vars(WorkerRuns(t))
    /\ WF_vars(StopReturn)

\* ------------------------------------------------------ the engine at work

\* The packets the interception facility delivers.
EnginePackets == {pkt_dns_resp_b, pkt_tcp443}

Init ==
    /\ blocklist = EngineStore
    /\ RestInit
    /\ EngineInit
    /\ IdleInit
    /\ config \in [filtering_enabled : {FALSE}, log_all_traffic : BOOLEAN,
                    app_control_rules : {<<>>}]
    /\ pydivert_available \in BOOLEAN

Next ==
    \/ \E spawn \in {"ok", "error"} : Start(spawn)
    \/ \E closed \in {"raises", "noop"} : StopBegin(closed)
    \/ StopReturn
    \/ \E value \in BOOLEAN : SetFilteringEnabled(value)
    \/ Tick
    \/ \E t \in 1..MaxThreads :
        \/ \E outcome \in {"ok", "error"} : WorkerOpen(t, outcome)
        \/ WorkerAssign(t)
        \/ \E packet \in EnginePackets : WorkerRecv(t, packet)
        \/ \E outcome \in {"raises", "ends"} : WorkerRecvFail(t, outcome)
        \/ WorkerCheck(t)
        \/ WorkerInspect(t)
        \/ \E send \in {"ok", "error"} : WorkerVerdict(t, send)
        \/ \E closed \in {"raises", "noop"} : WorkerLeave(t, closed)
        \/ WorkerExcept(t)

Spec == Init /\ [][Next]_vars

\* ================================================================ claims

\* s is d itself or a suffix of d that starts right after a dot.
IsDotSuffix(s, d) ==
    \/ d = s
    \/ /\ Len(d) > Len(s)
       /\ SubSeq(d, Len(d) - Len(s) + 1, Len(d)) = s
       /\ d[Len(d) - Len(s)] = chDot

\* s occurs in d as a run of consecutive characters.
IsSubstring(s, d) ==
    \E k \in 0..(Len(d) - Len(s)) : SubSeq(d, k + 1, k + Len(s)) = s

\* The rule store holds exactly one domain rule and no pattern rule.
SingleDomainRule ==
    /\ Len(blocklist.blocked_domains) = 1
    /\ Len(blocklist.blocked_patterns) = 0

\* The lookup just made, on the store it was made on.
LookedUp == ret.op = "is_domain_blocked"

\* C7 as stated: with one exact-match rule on S and no pattern rules, a lookup
\* of D is blocked with a reason citing S whenever D equals S or is a strict
\* dot-delimited subdomain of S, and is not blocked when D merely contains S.
C7_ReasonCitesRule ==
    (LookedUp /\ SingleDomainRule) =>
        LET S == blocklist.blocked_domains[1].value
            D == Strip(Lower(ret.arg))
        IN  /\ IsDotSuffix(S, D) =>
                (ret.res.blocked /\ ret.res.reason.cite = S)
            /\ (IsSubstring(S, D) /\ ~IsDotSuffix(S, D)) => ~ret.res.blocked

\* C7 amended: with one exact-match rule on S (category C) and no pattern
\* rules, a lookup of D is blocked with category C exactly when D, lower-cased
\* and stripped, equals S or ends with "." followed by S; the reason is
\* "Exact match" (naming no rule) when D equals S and
\* "Parent domain match: S" when D is a strict subdomain; every other D,
\* in particular one that only contains S as a substring, is not blocked.
C7_SuffixRule ==
    (LookedUp /\ SingleDomainRule) =>
        LET S == blocklist.blocked_domains[1].value
            C == blocklist.blocked_domains[1].category
            D == Strip(Lower(ret.arg))
        IN  /\ D = S =>
                ret.res = [blocked |-> TRUE, category |-> C,
                           reason |-> Reason("Exact match", <<>>)]
            /\ (IsDotSuffix(S, D) /\ D # S) =>
                ret.res = [blocked |-> TRUE, category |-> C,
                           reason |-> Reason("Parent domain match: ", S)]
            /\ ~IsDotSuffix(S, D) => ret.res = NotBlocked

\* C7 witness: rule "b" alone, "ab" looked up (it contains "b", not as a
\* label) and found not blocked.
C7_Witness ==
    /\ LookedUp /\ SingleDomainRule
    /\ blocklist.blocked_domains[1].value = s_b
    /\ ret.arg = s_ab
    /\ ~ret.res.blocked

\* The keys of the domain map that are dot-delimited suffixes of d.
SuffixKeys(d) ==
    {blocklist.blocked_domains[i].value : i \in 1..Len(blocklist.blocked_domains)}
        \cap {k \in SeqsUpTo(QueryAlphabet, Len(d)) : IsDotSuffix(k, d)}

\* The positions of the pattern list whose pattern matches d.
MatchingPatterns(d) ==
    {i \in 1..Len(blocklist.blocked_patterns) :
        RegexSearch(blocklist.blocked_patterns[i].pattern, d)}

\* C8: a lookup reports the first hit in the order full domain, parent
\* suffixes from longest to shortest, patterns in insertion order: a matching
\* exact or suffix rule beats every pattern, the longest matching suffix
\* beats shorter ones, the earliest matching pattern beats later ones, and
\* the lookup is not blocked only when nothing matches.
C8_FirstHitOrder ==
    LookedUp =>
        LET D == Strip(Lower(ret.arg))
            keys == SuffixKeys(D)
            pats == MatchingPatterns(D)
        IN  IF keys # {}
            THEN LET k == CHOOSE x \in keys : \A y \in keys : Len(x) >= Len(y)
                 IN  /\ ret.res.blocked
                     /\ ret.res.category = DictGet(blocklist.blocked_domains, k)
                     /\ ret.res.reason =
                            IF k = D THEN Reason("Exact match", <<>>)
                            ELSE Reason("Parent domain match: ", k)
            ELSE IF pats # {}
            THEN LET i == CHOOSE x \in pats : \A y \in pats : x <= y
                 IN  /\ ret.res.blocked
                     /\ ret.res.category = blocklist.blocked_patterns[i].category
                     /\ ret.res.reason =
                            Reason("Pattern match: ",
                                   blocklist.blocked_patterns[i].pattern)
            ELSE ret.res = NotBlocked

\* C8 witness: rules "b" and "a.b" and two patterns that both match; the
\* lookup of "a.a.b" reports the parent "a.b".
C8_Witness ==
    /\ LookedUp
    /\ ret.arg = s_a_a_b
    /\ DictHas(blocklist.blocked_domains, s_b)
    /\ DictHas(blocklist.blocked_domains, s_a_b)
    /\ Cardinality(MatchingPatterns(s_a_a_b)) = 2
    /\ blocklist.blocked_patterns[1] # blocklist.blocked_patterns[2]
    /\ ret.res.reason = Reason("Parent domain match: ", s_a_b)

\* C8 witness of the pattern order: no rule key matches "ab", two different
\* patterns match it, and the first inserted is reported.
C8_WitnessPatterns ==
    /\ LookedUp
    /\ ret.arg = s_ab
    /\ SuffixKeys(s_ab) = {}
    /\ Cardinality(MatchingPatterns(s_ab)) = 2
    /\ blocklist.blocked_patterns[1] # blocklist.blocked_patterns[2]
    /\ ret.res.reason =
            Reason("Pattern match: ", blocklist.blocked_patterns[1].pattern)

\* C9 as stated: after export_to_file (JSON) and import_from_file of the
\* written file into a fresh rule store, the fresh store has the same domain
\* mapping, the same IP mapping and the same pattern list in the same order.
C9_RoundTrip ==
    (ret.op = "import_from_file" /\ export_file.kind = "json") =>
        /\ DictItems(fresh.blocked_domains) = DictItems(blocklist.blocked_domains)
        /\ DictItems(fresh.blocked_ips) = DictItems(blocklist.blocked_ips)
        /\ fresh.blocked_patterns = blocklist.blocked_patterns

MutatingOps ==
    {"add_domain", "add_ip", "add_pattern", "remove_domain", "remove_ip",
     "clear_category"}

\* C10: whenever add_domain, add_ip, add_pattern, remove_domain, remove_ip or
\* clear_category returns true, load_blocklist of the rule file yields the
\* domain map, the IP map and the pattern sequence (in order) held in memory,
\* also after earlier operations whose write failed.
C10_PersistedOnSuccess ==
    (ret.op \in MutatingOps /\ ret.ok) =>
        LET l == Loaded(blocklist.blocklist_file)
        IN  /\ l.ok
            /\ DictItems(l.st.blocked_domains) = DictItems(blocklist.blocked_domains)
            /\ DictItems(l.st.blocked_ips) = DictItems(blocklist.blocked_ips)
            /\ l.st.blocked_patterns = blocklist.blocked_patterns

\* C10 witness: a mutation returned true after an earlier write had failed,
\* with rules of all three kinds in memory.
C10_Witness ==
    /\ ret.op \in MutatingOps /\ ret.ok
    /\ io_failures > 0
    /\ Len(blocklist.blocked_domains) = MaxRules
    /\ Len(blocklist.blocked_ips) > 0
    /\ Len(blocklist.blocked_patterns) = MaxRules

\* The packet just evaluated is a TCP packet to port 443.
EvaluatedTcp443 ==
    /\ ret.op = "should_block_packet"
    /\ ret.arg.proto = "TCP"
    /\ ret.arg.dst_port = 443

\* The packet just evaluated is a DNS response (UDP from port 53) whose
\* payload decodes to a domain.
EvaluatedDnsResponse ==
    /\ ret.op = "should_block_packet"
    /\ ret.arg.proto = "UDP"
    /\ ret.arg.src_port = 53
    /\ ExtractDnsDomain(ret.arg.payload).some

\* C6 as stated: once a DNS response decoding to a blocked domain D for IP A
\* has been evaluated, every later TCP packet to A:443 is blocked through the
\* Identity Cache with a reason citing D's category (D stays blocked: no
\* domain rule is removed; the packet's IP has no IP rule).
C6_BlockedEverAfter ==
    (EvaluatedTcp443 /\ ~IsIpBlocked(blocklist, ret.arg.dst_addr).blocked) =>
        \A seen \in dns_seen :
            seen[1] = ret.arg.dst_addr =>
                /\ ret.res.block
                /\ ret.res.text = "Blocked HTTP/HTTPS to"
                /\ ret.res.category = IsDomainBlocked(blocklist, seen[2]).category

\* C6 amended: evaluating a DNS response that decodes to D and is sent to an
\* IP A without an IP rule records A -> D in the Identity Cache; and a TCP
\* packet to A:443 evaluated while A has no IP rule, the cache maps A to D
\* (last write wins: no later DNS response or port-80 Host header for A has
\* replaced it) and D is blocked with category C gets verdict block through
\* the Identity Cache, the reason citing D and C.
C6_BlockedWhileCached ==
    /\ (EvaluatedDnsResponse /\ ~IsIpBlocked(blocklist, ret.arg.dst_addr).blocked) =>
            /\ ret.arg.dst_addr \in DOMAIN dns_cache
            /\ dns_cache[ret.arg.dst_addr] = ExtractDnsDomain(ret.arg.payload).domain
    /\ (/\ EvaluatedTcp443
        /\ ~IsIpBlocked(blocklist, ret.arg.dst_addr).blocked
        /\ ret.arg.dst_addr \in DOMAIN dns_cache
        /\ IsDomainBlocked(blocklist, dns_cache[ret.arg.dst_addr]).blocked) =>
            /\ ret.res.block
            /\ ret.res.text = "Blocked HTTP/HTTPS to"
            /\ ret.res.domain = dns_cache[ret.arg.dst_addr]
            /\ ret.res.category =
                    IsDomainBlocked(blocklist, dns_cache[ret.arg.dst_addr]).category

\* C6 witness: rule "b" is tagged malware, a DNS response for 1.1.1.1 decoding
\* to "b" has been evaluated, and the TCP packet to 1.1.1.1:443 is blocked
\* through the cache with category malware.
C6_Witness ==
    /\ EvaluatedTcp443
    /\ <<ip_1, s_b>> \in dns_seen
    /\ ret.res.block
    /\ ret.res.text = "Blocked HTTP/HTTPS to"
    /\ ret.res.domain = s_b
    /\ ret.res.category = "malware"

\* ------------------------------------------------------------ C1 .. C5

\* The engine state start() must leave alone when it has nothing to do.
EngineUnchanged ==
    UNCHANGED <<running, filter_thread, threads, stats, dns_cache, handles,
                divert_handle, blocklist>>

\* C1 (as the specification states it): when stop() has reported success and
\* the next call is a start() that reports success, the three packet counters
\* are zero as the new run begins, and the cache and the rule store are as
\* they were.
C1_CountersResetOnRestart ==
    [][\A spawn \in {"ok", "error"} :
         (/\ ret.op = "stop" /\ ret.ok /\ ~running
          /\ Start(spawn) /\ ret'.ok)
         => /\ stats'.packets_inspected = 0
            /\ stats'.packets_allowed = 0
            /\ stats'.packets_blocked = 0
            /\ dns_cache' = dns_cache
            /\ blocklist' = blocklist]_vars

\* C2 (as the specification states it): start() called while the engine is
\* running reports success and is a no-op: no second worker, and the running
\* flag, start_time, the counters and the Identity Cache stay as they were.
C2_StartWhileRunningSucceeds ==
    [][\A spawn \in {"ok", "error"} :
         (running /\ Start(spawn)) => (ret'.ok /\ EngineUnchanged)]_vars

\* The worker of thread t could not open its interception handle.
OpenFailed(t) ==
    IF t = 0 THEN FALSE
    ELSE threads[t].handle = 0 /\ threads[t].pc \in {"except", "done"}

\* C3 (as the specification states it): when start() is called on a stopped
\* engine while filtering is disabled, PyDivert is missing, or the handle of
\* the run cannot be opened, start() reports failure and the running flag is
\* false.
C3_StartFailsFast ==
    (/\ ret.op = "start" /\ ~ret.arg.was_running
     /\ \/ ~pydivert_available
        \/ ~ret.arg.enabled
        \/ OpenFailed(ret.arg.thread))
    => (~ret.ok /\ ~running)

\* Worker t is in its packet loop on an open handle.
Pulling(t) ==
    threads[t].pc \in {"recv", "got", "inspect", "verdict"} /\ t \in handles

\* C4 (as the specification states it): at most one worker is in its packet
\* loop at any time.
C4_OneWorker == Cardinality({t \in 1..MaxThreads : Pulling(t)}) <= 1

\* C5 (as the specification states it): once stop() has returned on a running
\* engine, it reported success, the running flag is false and the handle the
\* run opened is not open.
C5_StopReturned ==
    (ret.op = "stop" /\ ret.arg.was_running)
    => (ret.ok /\ ~running /\ ret.arg.thread \notin handles)

\* ----------------------------------------------------------- C11 .. C14

\* v, lower-cased and stripped, is a value add_domain must accept: not empty
\* and without '/'.
ValidDomainArg(v) ==
    LET n == Strip(Lower(v)) IN Len(n) > 0 /\ ~HasChar(n, chSlash)

\* v is a dotted quad: four parts, each a run of decimal digits that reads
\* as a number from 0 to 255.
IsDottedQuad(v) ==
    LET parts == Split(v, chDot)
    IN  /\ Len(parts) = 4
        /\ \A i \in 1..4 :
              /\ Len(parts[i]) > 0
              /\ \A k \in 1..Len(parts[i]) : IsDigit(parts[i][k])
              /\ DigitsValue(parts[i]) <= 255

\* The rule file after a save that failed: as it was, or left unreadable.
FileNotUpdated ==
    blocklist'.blocklist_file \in {blocklist.blocklist_file, FileCorrupt}

\* C11: when the save of a valid add_domain, add_ip or add_pattern fails, the
\* operation returns false, the change is in memory all the same (the key
\* with its category, the pattern at the end of the list), a following
\* is_domain_blocked / is_ip_blocked reports it, and the rule file has not
\* been updated.
C11_NoRollback ==
    [][/\ (/\ ret'.op = "add_domain" /\ ~ret'.ok
           /\ ValidDomainArg(ret'.arg.value)) =>
            /\ DictHas(blocklist'.blocked_domains, Strip(Lower(ret'.arg.value)))
            /\ IsDomainBlocked(blocklist', ret'.arg.value) =
                    [blocked |-> TRUE, category |-> ret'.arg.category,
                     reason |-> Reason("Exact match", <<>>)]
            /\ FileNotUpdated
       /\ (/\ ret'.op = "add_ip" /\ ~ret'.ok
           /\ IsDottedQuad(Strip(ret'.arg.value))) =>
            /\ DictHas(blocklist'.blocked_ips, Strip(ret'.arg.value))
            /\ IsIpBlocked(blocklist', ret'.arg.value) =
                    [blocked |-> TRUE, category |-> ret'.arg.category,
                     reason |-> Reason("Exact match", <<>>)]
            /\ FileNotUpdated
       /\ (/\ ret'.op = "add_pattern" /\ ~ret'.ok
           /\ ~RegexInvalid(ret'.arg.value)) =>
            /\ blocklist'.blocked_patterns =
                    Append(blocklist.blocked_patterns,
                           [pattern |-> ret'.arg.value,
                            category |-> ret'.arg.category])
            /\ RegexSearch(ret'.arg.value, ret'.arg.value) =>
                    IsDomainBlocked(blocklist', ret'.arg.value).blocked
            /\ FileNotUpdated]_vars

\* C11 witness: add_domain of a valid value returned false; the value is
\* reported blocked, and the rule file, still readable, does not hold it.
C11_Witness ==
    /\ ret.op = "add_domain" /\ ~ret.ok
    /\ ValidDomainArg(ret.arg.value)
    /\ IsDomainBlocked(blocklist, ret.arg.value).blocked
    /\ blocklist.blocklist_file.kind = "json"
    /\ ~DictHas(Loaded(blocklist.blocklist_file).st.blocked_domains,
                Strip(Lower(ret.arg.value)))

\* C12 (as the specification states it): add_domain with an empty value or
\* one containing '/', add_ip with a value that is not a dotted quad, and
\* add_pattern with invalid regex syntax each return false and leave the
\* domain map, the IP map, the pattern list and the rule file as they were.
C12_RejectionMutatesNothing ==
    [][(\/ ret'.op = "add_domain" /\ ~ValidDomainArg(ret'.arg.value)
        \/ ret'.op = "add_ip" /\ ~IsDottedQuad(Strip(ret'.arg.value))
        \/ ret'.op = "add_pattern" /\ RegexInvalid(ret'.arg.value))
       => (~ret'.ok /\ blocklist' = blocklist)]_vars

\* C13 (as the specification states it): add_ip(v) succeeds exactly when v
\* (surrounding whitespace aside) is a dotted quad of four numeric octets in
\* 0..255; a value added is reported blocked with its category while it is
\* in the map, and is_ip_blocked reports nothing but the keys of the map.
C13_AddIpExact ==
    /\ ret.op = "add_ip" =>
        /\ ret.ok <=> IsDottedQuad(Strip(ret.arg.value))
        /\ ret.ok => IsIpBlocked(blocklist, ret.arg.value) =
                        [blocked |-> TRUE, category |-> ret.arg.category,
                         reason |-> Reason("Exact match", <<>>)]
    /\ ret.op = "is_ip_blocked" =>
        (ret.res.blocked <=> DictHas(blocklist.blocked_ips, Strip(ret.arg)))

\* The step is remove_domain(v) or remove_ip(v).
RemoveStep == ret'.op \in {"remove_domain", "remove_ip"}

\* The key the remove step looks up, the map it looks in before the call and
\* the same map after it.
RemovedKey ==
    IF ret'.op = "remove_domain" THEN Strip(Lower(ret'.arg)) ELSE Strip(ret'.arg)

MapBefore ==
    IF ret'.op = "remove_domain" THEN blocklist.blocked_domains
    ELSE blocklist.blocked_ips

MapAfter ==
    IF ret'.op = "remove_domain" THEN blocklist'.blocked_domains
    ELSE blocklist'.blocked_ips

\* C14 (as the specification states it): remove_domain(v) and remove_ip(v)
\* return true if and only if the key existed before the call and is absent
\* after it, and return false and change nothing when the key did not exist.
C14_RemoveIffExisted ==
    [][RemoveStep =>
        /\ ret'.ok <=> (/\ DictHas(MapBefore, RemovedKey)
                        /\ ~DictHas(MapAfter, RemovedKey))
        /\ ~DictHas(MapBefore, RemovedKey) =>
                (~ret'.ok /\ blocklist' = blocklist)]_vars

\* C14 (amended): when the key (v lower-cased and stripped for a domain,
\* stripped for an IP) did not exist, remove_* returns false and changes
\* nothing. When it existed, the key is deleted from memory, every other
\* entry staying; the call returns true when the save succeeded, the file
\* then holding the ruleset without the key, and false when the save failed,
\* the key being gone from memory all the same and the file not updated.
C14_RemoveAndSave ==
    [][RemoveStep =>
        /\ ~DictHas(MapBefore, RemovedKey) =>
                (~ret'.ok /\ blocklist' = blocklist)
        /\ DictHas(MapBefore, RemovedKey) =>
                /\ ~DictHas(MapAfter, RemovedKey)
                /\ DictItems(MapAfter) =
                        {e \in DictItems(MapBefore) : e.value # RemovedKey}
                /\ ret'.ok =>
                        blocklist'.blocklist_file = FileJson(SaveData(blocklist'))
                /\ ~ret'.ok => FileNotUpdated]_vars

\* C14 witness: remove_domain returned false although it deleted the key: the
\* key is gone from memory and the rule file, whose write failed, still
\* holds it.
C14_Witness ==
    /\ ret.op = "remove_domain" /\ ~ret.ok
    /\ ~DictHas(blocklist.blocked_domains, Strip(Lower(ret.arg)))
    /\ blocklist.blocklist_file.kind = "json"
    /\ DictHas(Loaded(blocklist.blocklist_file).st.blocked_domains,
               Strip(Lower(ret.arg)))

\* ----------------------------------------------------------- C15 .. C17

\* C15: for a payload of a 12-byte header followed by labels of ASCII bytes,
\* each after its length byte, and a zero byte (whatever follows it),
\* _extract_dns_domain returns the labels joined with '.' and lower-cased.
C15_WellFormedName ==
    ret.op = "extract_dns_domain" =>
        \A ls \in WireLabelSeqs :
            StartsWith(ret.arg, DnsPayload(EncodeLabels(ls) \o <<0>>)) =>
                ret.res = [some |-> TRUE, domain |-> Lower(Join(ls, chDot))]

\* C15 witness: header + [3]www[7]example[3]com[0] gave "www.example.com".
C15_Witness ==
    /\ ret.op = "extract_dns_domain"
    /\ ret.arg = DnsPayload(<<3, 119, 119, 119, 7, 101, 120, 97, 109, 112,
                              108, 101, 3, 99, 111, 109, 0>>)
    /\ ret.res = [some |-> TRUE,
                  domain |-> <<119, 119, 119, 46, 101, 120, 97, 109, 112, 108,
                               101, 46, 99, 111, 109>>]

\* The question bytes are truncated: after zero or more whole labels comes a
\* length byte (not a pointer) that exceeds the number of bytes left.
IsTruncated(body) ==
    \E ls \in WireLabelSeqs \cup {<<>>} :
        LET e == EncodeLabels(ls)
        IN  /\ Len(body) > Len(e)
            /\ SubSeq(body, 1, Len(e)) = e
            /\ body[Len(e) + 1] \in 1..191
            /\ Len(body) - (Len(e) + 1) < body[Len(e) + 1]

\* C16 (as the specification states it): for a payload truncated in its
\* first label or in a later one, _extract_dns_domain returns none.
C16_TruncatedGivesNone ==
    (/\ ret.op = "extract_dns_domain"
     /\ Len(ret.arg) > DnsHeaderLen
     /\ IsTruncated(SubSeq(ret.arg, DnsHeaderLen + 1, Len(ret.arg))))
    => ~ret.res.some

\* The header line of a request of HostPackets (its second line).
HeaderLineOf(payload) == SplitCRLF(payload)[2]

\* h without a trailing ':port': when what follows the last colon of h is
\* digits only, h up to that colon; h otherwise.
WithoutPort(h) ==
    LET colons == {i \in 1..Len(h) : h[i] = 58}
    IN  IF colons = {} THEN h
        ELSE LET k == CHOOSE i \in colons : \A j \in colons : i >= j
             IN  IF \A j \in (k + 1)..Len(h) : IsDigit(h[j])
                 THEN SubSeq(h, 1, k - 1) ELSE h

\* C17 (as the specification states it): for a TCP packet to port 80 whose
\* payload begins with 'GET ', 'POST ' or 'HEAD ' and has a line starting
\* with 'host:' in any letter case, the host extracted (and cached for the
\* destination IP) is the text after the line's first colon, stripped, with
\* a trailing ':port' removed; for any other port or request-line prefix no
\* host is extracted (nothing is cached).
C17_HostExtracted ==
    ret.op = "should_block_packet" =>
        LET p == ret.arg
            line == HeaderLineOf(p.payload)
        IN  IF /\ p.dst_port = 80
               /\ \E m \in HttpMethods : StartsWith(p.payload, m)
               /\ StartsWith(Lower(line), HostPrefix)
            THEN /\ p.dst_addr \in DOMAIN dns_cache
                 /\ dns_cache[p.dst_addr] =
                        WithoutPort(Strip(SubSeq(line, Len(HostPrefix) + 1, Len(line))))
            ELSE p.dst_port # 80 \/ ~(\E m \in HttpMethods : StartsWith(p.payload, m))
                    => dns_cache = <<>>

\* ---------------------------------------------------------- C18 .. C20

\* The step is a call of _should_block_packet.
EvaluateStep == ret'.op = "should_block_packet"

\* C18: when the destination IP of the packet has a rule in the Rule Store,
\* the verdict is block by that IP rule (the reason citing the rule's
\* category), whatever the packet carries, and the Identity Cache is left as
\* it was: neither the DNS nor the HTTP inspection has run.
C18_IpRuleDecidesFirst ==
    [][(EvaluateStep /\ DictHas(blocklist.blocked_ips, ret'.arg.dst_addr)) =>
            /\ ret'.res.block
            /\ ret'.res.text = "Blocked IP"
            /\ ret'.res.category = DictGet(blocklist.blocked_ips, ret'.arg.dst_addr)
            /\ dns_cache' = dns_cache]_vars

\* C18 witness: a DNS response for "b" sent to 1.1.1.1, which has an IP rule,
\* has been blocked by the IP rule, and the cache holds nothing for 1.1.1.1.
C18_Witness ==
    /\ ret.op = "should_block_packet"
    /\ ret.arg = pkt_dns_resp_b
    /\ ret.res.block
    /\ ret.res.text = "Blocked IP"
    /\ ip_1 \notin DOMAIN dns_cache

\* The packet just evaluated has port 53 on one side and a payload that
\* decodes to a domain the Rule Store blocks.
EvaluatedPort53Blocked ==
    /\ ret.op = "should_block_packet"
    /\ (ret.arg.src_port = 53 \/ ret.arg.dst_port = 53)
    /\ LET d == ExtractDnsDomain(ret.arg.payload)
       IN  /\ d.some
           /\ Len(d.domain) > 0
           /\ IsDomainBlocked(blocklist, d.domain).blocked

\* C19 as stated: a packet with source or destination port 53 whose payload
\* decodes to a domain D that is blocked gets verdict block.
C19_Port53Blocked ==
    EvaluatedPort53Blocked => ret.res.block

\* C19 amended: a UDP packet with source or destination port 53 whose payload
\* decodes to a domain D that is blocked gets verdict block; when its
\* destination IP has no IP rule the verdict is the DNS one, citing D and the
\* category of D's rule. (A TCP packet on port 53 is not inspected as DNS.)
C19_UdpPort53Blocked ==
    (EvaluatedPort53Blocked /\ ret.arg.proto = "UDP") =>
        /\ ret.res.block
        /\ ~DictHas(blocklist.blocked_ips, ret.arg.dst_addr) =>
              LET d == ExtractDnsDomain(ret.arg.payload).domain
              IN  /\ ret.res.text = "Blocked DNS"
                  /\ ret.res.domain = d
                  /\ ret.res.category = IsDomainBlocked(blocklist, d).category

\* C19 witness: a DNS response (UDP from port 53) for the blocked domain "b"
\* has been blocked by the DNS inspection.
C19_Witness ==
    /\ ret.op = "should_block_packet"
    /\ ret.arg = pkt_dns_resp_b
    /\ ret.res.block
    /\ ret.res.text = "Blocked DNS"
    /\ ret.res.domain = s_b

\* The step evaluates a TCP packet to port 80 or 443 whose destination has no
\* IP rule and has an Identity Cache entry.
CacheHitStep ==
    /\ EvaluateStep
    /\ ret'.arg.proto = "TCP"
    /\ ret'.arg.dst_port \in {80, 443}
    /\ ~DictHas(blocklist.blocked_ips, ret'.arg.dst_addr)
    /\ ret'.arg.dst_addr \in DOMAIN dns_cache

\* C20 as stated: a TCP packet to port 80 or 443 whose destination IP has an
\* Identity Cache entry is decided by the cached domain alone (blocked exactly
\* when the cached domain is blocked), and no Host header is extracted (the
\* cache entry stays as it was).
C20_CachedDomainAlone ==
    [][CacheHitStep =>
            /\ ret'.res.block <=>
                    IsDomainBlocked(blocklist, dns_cache[ret'.arg.dst_addr]).blocked
            /\ dns_cache' = dns_cache]_vars

\* C20 amended: with a cache entry for the destination, a blocked cached
\* domain decides (block through the cache, cache untouched); when the cached
\* domain is not blocked, a packet to port 443 is allowed with the cache
\* untouched, while a packet to port 80 that is a GET/POST/HEAD request has
\* its Host header extracted all the same: the host replaces the cache entry
\* and the packet is blocked exactly when the host is blocked.
C20_CachedDomainThenHost ==
    [][CacheHitStep =>
        LET p == ret'.arg
            cached == dns_cache[p.dst_addr]
            line == HeaderLineOf(p.payload)
        IN  IF IsDomainBlocked(blocklist, cached).blocked
            THEN /\ ret'.res.block
                 /\ ret'.res.text = "Blocked HTTP/HTTPS to"
                 /\ ret'.res.domain = cached
                 /\ dns_cache' = dns_cache
            ELSE IF p.dst_port = 443
            THEN ~ret'.res.block /\ dns_cache' = dns_cache
            ELSE LET host == WithoutPort(Strip(SubSeq(line, Len(HostPrefix) + 1,
                                                      Len(line))))
                 IN  /\ dns_cache'[p.dst_addr] = host
                     /\ ret'.res.block <=> IsDomainBlocked(blocklist, host).blocked
                     /\ ret'.res.block =>
                            /\ ret'.res.text = "Blocked HTTP Host"
                            /\ ret'.res.domain = host]_vars

\* C20 witness: 1.1.1.1 had a cache entry whose domain was not blocked, and
\* the request to 1.1.1.1:80 with 'Host: b' has been blocked by its Host
\* header, "b" now being the cache entry.
C20_Witness ==
    /\ ret.op = "should_block_packet"
    /\ ret.arg = pkt_http_b
    /\ ret.count = 1
    /\ ret.res.block
    /\ ret.res.text = "Blocked HTTP Host"
    /\ dns_cache[ip_1] = s_b

\* ---------------------------------------------------------- C21 .. C22

\* Worker t acts on the verdict of the packet it holds.
VerdictStep(t) == threads[t].pc = "verdict" /\ threads'[t].pc # "verdict"

\* Worker t counts the packet it holds as inspected.
InspectStep(t) == threads[t].pc = "inspect" /\ threads'[t].pc # "inspect"

\* What a block verdict does to worker t's packet: counted as blocked, one
\* traffic-blocked event, no reinjection.
BlockOutcome ==
    /\ stats'.packets_blocked = stats.packets_blocked + 1
    /\ stats'.packets_allowed = stats.packets_allowed
    /\ events'.traffic_blocked = events.traffic_blocked + 1
    /\ events'.traffic_allowed = events.traffic_allowed
    /\ sent' = sent

\* What an allow verdict does up to the reinjection: counted as allowed, a
\* traffic-allowed event exactly when monitoring.log_all_traffic is set.
AllowCounted ==
    /\ stats'.packets_allowed = stats.packets_allowed + 1
    /\ stats'.packets_blocked = stats.packets_blocked
    /\ events'.traffic_blocked = events.traffic_blocked
    /\ events'.traffic_allowed =
            events.traffic_allowed + (IF config.log_all_traffic THEN 1 ELSE 0)

FacilityFails(t) ==
    \/ /\ threads[t].pc = "recv" /\ t \in handles
       /\ threads'[t].pc \notin {"recv", "got"}
    \/ /\ VerdictStep(t) /\ ~threads[t].verdict.block /\ sent' = sent

\* A start() that spawns its thread would find the engine stopped and bring
\* it back to running.
CanStartAgain == ENABLED (Start("ok") /\ running' /\ ret'.ok)

\* C22: a failure of the facility under a worker takes the worker to its
\* error handler, and the handler logs one error event, clears the running
\* flag and ends the worker (nothing escapes it); and whenever the engine is
\* stopped under a configuration that enables filtering, start() can bring
\* it back to running (as long as a thread can be created).
C22_FailureStopsEngine ==
    /\ [][\A t \in 1..MaxThreads :
            /\ FacilityFails(t) => threads'[t].pc = "except"
            /\ (threads[t].pc = "except" /\ threads'[t] # threads[t]) =>
                    /\ threads'[t].pc = "done"
                    /\ ~running'
                    /\ events'.error = events.error + 1]_vars
    /\ []((/\ ~running /\ caller = "idle"
           /\ pydivert_available /\ config.filtering_enabled
           /\ \E t \in 1..MaxThreads : threads[t].pc = "unborn")
          => CanStartAgain)

\* C22 witness: no call has followed the start() of worker 1; the worker
\* opened its handle, the facility failed, and the worker has ended with the
\* error logged, the running flag cleared and the engine ready for start().
C22_Witness ==
    /\ ret.op = "start" /\ ret.ok /\ ret.arg.thread = 1
    /\ threads[1].pc = "done" /\ threads[1].handle = 1
    /\ events.error = 1
    /\ ~running
    /\ CanStartAgain

\* ------------------------------------------------------------------ C23

\* The store as the mutation under way leaves it when it runs alone.
MutationAfter ==
    IF mutation.op = "clear_category"
    THEN ClearCategoryOp(mutation.before, mutation.category, "ok").st
    ELSE LoadBlocklist(mutation.before, "ok").st

\* The step is a lookup made while a mutation is under way.
LookupDuringMutation ==
    /\ mutation.op # "none"
    /\ mutation' = mutation
    /\ ret'.op = "is_domain_blocked"

\* C23 (as the specification states it): a lookup made while another thread
\* is in the middle of clear_category or load_blocklist returns what it
\* returns on the ruleset before the mutation or what it returns on the
\* ruleset after it.
C23_BeforeOrAfter ==
    [][LookupDuringMutation =>
            ret'.res \in {IsDomainBlocked(mutation.before, ret'.arg),
                          IsDomainBlocked(MutationAfter, ret'.arg)}]_vars

\* The statements of a mutation, run to their end, leave the store the
\* operation leaves when it runs alone.
MutationEndsAsAlone ==
    [][(mutation.op # "none" /\ mutation'.op = "none") =>
            blocklist' = MutationAfter]_vars

\* ---------------------------------------------------------- C24 .. C26

\* A rule is stored under key k, it is enabled and its action is block.
BlockRuleAt(rules, k) ==
    \E i \in 1..Len(rules) :
        /\ rules[i].value = k
        /\ rules[i].category.enabled
        /\ rules[i].category.action = "block"

\* C24: should_block_process(name) returns block = true exactly when a rule
\* exists for the lower-cased name, is enabled and has action block; it gives
\* the same answer for every letter-case spelling of a name; and after
\* toggle_rule(name, false) or remove_rule(name) it returns block = false.
C24_BlockIffEnabledBlockRule ==
    /\ [](ret.op = "should_block_process" =>
            (ret.res.block <=> BlockRuleAt(app_rules, Lower(ret.arg))))
    /\ [](\A n, m \in AppNames :
            Lower(n) = Lower(m) =>
                ShouldBlockProcess(app_rules, n) = ShouldBlockProcess(app_rules, m))
    /\ [][/\ ret'.op = "remove_rule" =>
                ~ShouldBlockProcess(app_rules', ret'.arg).block
          /\ (ret'.op = "toggle_rule" /\ ~ret'.arg.enabled) =>
                ~ShouldBlockProcess(app_rules', ret'.arg.process_name).block]_vars

\* C24 witness: should_block_process("A") has returned block = true on the
\* enabled block rule stored for "a".
C24_Witness ==
    /\ ret.op = "should_block_process"
    /\ ret.arg = <<65>>
    /\ ret.res.block
    /\ BlockRuleAt(app_rules, <<97>>)

\* C25 (as the specification states it): every key of the application rule
\* mapping is a lower-cased process name equal to the process_name of its
\* rule, no two keys differ only in letter case, and every saved rule is
\* found by get_rule under its process_name.
C25_KeysLowerCased ==
    /\ \A i \in 1..Len(app_rules) :
          /\ app_rules[i].value = Lower(app_rules[i].value)
          /\ app_rules[i].value = app_rules[i].category.process_name
    /\ \A i, j \in 1..Len(app_rules) :
          Lower(app_rules[i].value) = Lower(app_rules[j].value) => i = j
    /\ \A i \in 1..Len(config.app_control_rules) :
          DictHas(app_rules, Lower(config.app_control_rules[i].process_name))

\* C26 (as the specification states it): a packet sent by a process that has
\* an enabled rule with action block gets verdict block, whatever the Rule
\* Store holds.
C26_ProcessRuleBlocksPacket ==
    (ret.op = "should_block_packet" /\ BlockRuleAt(app_rules, Lower(input)))
        => ret.res.block

\* ------------------------------------------------------------------ C27

\* What the packet reveals for its destination: the name of a DNS response,
\* the host of an HTTP request's Host header.
Revealed(p) ==
    IF p.proto = "UDP"
    THEN ExtractDnsDomain(p.payload).domain
    ELSE LET line == HeaderLineOf(p.payload)
         IN  WithoutPort(Strip(SubSeq(line, Len(HostPrefix) + 1, Len(line))))

\* p is a DNS response that decodes to a domain, or an HTTP request to port
\* 80 with a Host header.
RevealsDomain(p) ==
    \/ /\ p.proto = "UDP" /\ p.src_port = 53
       /\ ExtractDnsDomain(p.payload).some
    \/ /\ p.proto = "TCP" /\ p.dst_port = 80
       /\ \E m \in HttpMethods : StartsWith(p.payload, m)
       /\ \E i \in 1..Len(SplitCRLF(p.payload)) :
            StartsWith(Lower(SplitCRLF(p.payload)[i]), HostPrefix)

\* C27: the Identity Cache changes only in a step in which a worker evaluates
\* a DNS response that decodes to a domain or a port-80 HTTP request with a
\* Host header, and the change is exactly that the entry of the packet's
\* destination IP becomes the name revealed, every other entry staying as it
\* was; no other packet and no call of start(), stop(), the Rule Store or the
\* Application Policy Store changes it, and no entry is ever removed.
C27_CacheFrame ==
    [][/\ DOMAIN dns_cache \subseteq DOMAIN dns_cache'
       /\ dns_cache' # dns_cache =>
            \E t \in 1..MaxThreads :
                /\ InspectStep(t)
                /\ RevealsDomain(threads[t].packet)
                /\ DOMAIN dns_cache' = DOMAIN dns_cache \cup {threads[t].packet.dst_addr}
                /\ \A a \in DOMAIN dns_cache' :
                      dns_cache'[a] = IF a = threads[t].packet.dst_addr
                                      THEN Revealed(threads[t].packet)
                                      ELSE dns_cache[a]]_vars

\* C27 witness: the worker has evaluated the HTTP request after the DNS
\* response: the entry of 1.1.1.1, once "ab", is now "b", the one entry.
C27_Witness ==
    /\ \E t \in 1..MaxThreads :
          /\ threads[t].pc = "verdict"
          /\ threads[t].packet = pkt_http_b
          /\ threads[t].verdict.text = "Blocked HTTP Host"
    /\ stats.packets_inspected = 2
    /\ sent = <<pkt_dns_resp_ab>>
    /\ DOMAIN dns_cache = {ip_1}
    /\ dns_cache[ip_1] = s_b

\* ------------------------------------------------------------------ C28

\* Worker t is in the middle of a packet: it has counted the packet as
\* inspected and has not yet counted it as blocked or allowed.
MidPacket(t) == threads[t].pc \in {"lookup", "verdict"}

\* C28: whenever no worker is in the middle of a packet (each one is waiting
\* for the next packet, or has left the loop for whatever reason, or has not
\* started), packets_inspected = packets_allowed + packets_blocked.
C28_CountersBalance ==
    (\A t \in 1..MaxThreads : ~MidPacket(t)) =>
        stats.packets_inspected = stats.packets_allowed + stats.packets_blocked

\* ------------------------------------------------------------------ C29

\* Worker t holds a packet it has retrieved and not yet disposed of.
Holding(t) == threads[t].pc \in {"got", "inspect", "lookup", "verdict"}

\* C29: no packet is discarded without a block verdict: a step in which a
\* worker ceases to hold the packet it retrieved is the drop that follows a
\* block verdict, or it reinjects that packet; so too for the packet
\* retrieved after stop() has cleared the running flag.
C29_DroppedOnlyOnBlock ==
    [][\A t \in 1..MaxThreads :
        (Holding(t) /\ threads'[t].pc \notin {"got", "inspect", "lookup", "verdict"}) =>
            \/ threads[t].pc = "verdict" /\ threads[t].verdict.block
            \/ sent' = Append(sent, threads[t].packet)]_vars

\* ------------------------------------------------------------------ C30

\* stop() has cleared the running flag of a Running engine and waits in its
\* join.
StopCalled == caller = "joining"

\* Every worker that was started has left its loop, and no interception
\* handle is open.
WorkersGone ==
    /\ \A t \in 1..MaxThreads : threads[t].pc \in {"unborn", "done"}
    /\ handles = {}

\* C30: once stop() has been called on a Running engine, then, unless a
\* start() follows, every worker eventually leaves its loop and the handle is
\* released, whether or not another packet arrives and however stop() is
\* interleaved with the worker's opening of the handle.
C30_StopEndsWorker == StopCalled ~> (WorkersGone \/ running)

====
